---- MODULE Spec2Model ----
(***************************************************************************)
(* Fraud-ring detection core of InsuraX: the graph store behind            *)
(* FraudRingDetector (src/fraud_ring_detection.py) and the request         *)
(* handlers of src/api_fraud_rings.py that load it and query it.           *)
(*                                                                         *)
(* The store is a labelled property graph.  Every session.run of the code  *)
(* is one auto-commit transaction and is one step of the model.  Nodes are *)
(* kept in creation order and are identified by their position, so that    *)
(* two nodes with equal properties stay two nodes; relationships are kept  *)
(* as sequences of <<start, end>> positions, one entry per CREATE.         *)
(* Only the properties that a query of the modelled operations reads are   *)
(* carried on the nodes.                                                   *)
(***************************************************************************)
EXTENDS Integers, Sequences, FiniteSets, TLC

VARIABLES
    serving,      \* api_server.py has finished its start-up code
    detector,     \* api_fraud_rings.detector: "None" or "object"
    session,      \* FraudRingDetector.session: "None" or "open"
    constraints,  \* labels whose key carries a uniqueness constraint in the store
    graph,        \* the nodes and relationships in the store
    req,          \* per worker: the request it is handling, and its response
    hist          \* history: the most recent call of load_data_from_firestore

vars == <<serving, detector, session, constraints, graph, req, hist>>

(***************************************************************************)
(* Bounds of the model.                                                    *)
(***************************************************************************)
MaxUsers == 2
MaxPolicies == 2
MaxClaims == 2

Workers == {"w1", "w2"}
SerialWorkers == {"w1"}

(***************************************************************************)
(* Generic helpers.                                                        *)
(***************************************************************************)
Range(s) == {s[i] : i \in DOMAIN s}

\* the lists of at most n records of recs, the records in the order of recs
ListsUpTo(recs, n) ==
    {[k \in DOMAIN f |-> recs[f[k]]] :
        f \in {g \in UNION {[1..m -> DOMAIN recs] : m \in 0..n} :
                 \A j, k \in DOMAIN g : j < k => g[j] <= g[k]}}

RECURSIVE Orderings(_)
Orderings(S) ==
    IF S = {} THEN {<<>>}
    ELSE UNION {{<<x>> \o t : t \in Orderings(S \ {x})} : x \in S}

\* dict.get(field, default)
Get(rec, field, default) == IF field \in DOMAIN rec THEN rec[field] ELSE default

(***************************************************************************)
(* Request payloads.  A record is a mapping from field names to values in  *)
(* which any field may be missing.  A fraudScore is a JSON number or null:  *)
(* the store keeps an integer as an integer and anything with a fraction   *)
(* as a float, and arithmetic on them depends on which it is.  The value   *)
(* is written in hundredths (80 is 0.80).                                  *)
(***************************************************************************)
Integer(n) == [type |-> "int", h |-> n * 100]
Float(h) == [type |-> "float", h |-> h]
Null == [type |-> "null", h |-> 0]

\* x > h / 100 as the store compares: a null is greater than nothing
GreaterThan(x, h) == x.type # "null" /\ x.h > h

UserRecs ==
    << [uid |-> "u1", phone |-> "555"],
       [uid |-> "u2", phone |-> "555"],
       [uid |-> "u2"] >>

PolicyRecs ==
    << [policyId |-> "p1", userId |-> "u1", insurance_type |-> "auto",
       policy_annual_premium |-> 100, sum_insured |-> 1000],
      [policyId |-> "p2", userId |-> "u2", insurance_type |-> "auto",
       policy_annual_premium |-> 100, sum_insured |-> 1000] >>

ClaimRecs ==
    << [claimId |-> "c1", policyId |-> "p1", userId |-> "u1", claimType |-> "collision",
       claimAmount |-> 600000, incidentDate |-> "2024-01-05", fraudScore |-> Float(80)],
      [claimId |-> "c2", policyId |-> "p2", userId |-> "u2", claimType |-> "collision",
       claimAmount |-> 600000, incidentDate |-> "2024-01-05"] >>

Payloads ==
    [users : ListsUpTo(UserRecs, MaxUsers),
     policies : ListsUpTo(PolicyRecs, MaxPolicies),
     claims : ListsUpTo(ClaimRecs, MaxClaims)]

NoPayload == [users |-> <<>>, policies |-> <<>>, claims |-> <<>>]

(***************************************************************************)
(* The graph store.                                                        *)
(***************************************************************************)
EmptyGraph ==
    [users |-> <<>>, policies |-> <<>>, claims |-> <<>>,
     owns |-> <<>>, has_claim |-> <<>>, filed |-> <<>>]

\* property that carries the uniqueness constraint of a label
KeyOf(label) ==
    CASE label = "users" -> "userId"
      [] label = "policies" -> "policyId"
      [] label = "claims" -> "claimId"

AllConstraints == {"users", "policies", "claims"}

\* (a store that does not enforce its constraints)
NeverViolates(g, cons, label, node) == FALSE

\* CREATE (n:Label {...}) under the label's uniqueness constraint, if any
Violates(g, cons, label, node) ==
    /\ label \in cons
    /\ \E i \in DOMAIN g[label] : g[label][i][KeyOf(label)] = node[KeyOf(label)]

CreateNode(g, label, node) == [g EXCEPT ![label] = Append(@, node)]

\* (a wipe that deletes nothing)
NotWiped(g) == g

\* (a wipe that leaves the oldest User node behind)
WipedButOne(g) ==
    [EmptyGraph EXCEPT !.users = IF g.users = <<>> THEN <<>> ELSE <<g.users[1]>>]

\* MATCH (n) DETACH DELETE n
Wiped(g) == EmptyGraph

\* (a loader that looks for the field id before the field uid)
UserNodeIdFirst(user) ==
    [userId |-> Get(user, "id", Get(user, "uid", "")),
     phone |-> Get(user, "phone", "")]

UserNode(user) ==
    [userId |-> Get(user, "uid", Get(user, "id", "")),
     phone |-> Get(user, "phone", "")]

PolicyNode(policy) ==
    [policyId |-> Get(policy, "policyId", ""),
     insurance_type |-> Get(policy, "insurance_type", ""),
     policy_annual_premium |-> Get(policy, "policy_annual_premium", 0),
     sum_insured |-> Get(policy, "sum_insured", 0),
     userId |-> Get(policy, "userId", "")]

ClaimNode(claim) ==
    [claimId |-> Get(claim, "claimId", ""),
     policyId |-> Get(claim, "policyId", ""),
     claimType |-> Get(claim, "claimType", ""),
     claimAmount |-> Get(claim, "claimAmount", 0),
     submittedDate |-> Get(claim, "submittedDate", ""),
     incidentDate |-> Get(claim, "incidentDate", ""),
     userId |-> Get(claim, "userId", ""),
     fraudScore |-> Get(claim, "fraudScore", Integer(0))]

\* (a MATCH without its property filter)
MatchesAny(g, label, value) == DOMAIN g[label]

\* MATCH (a:A {ka: va}) MATCH (b:B {kb: vb}) CREATE (a)-[:R]->(b):
\* one relationship per pair of matching nodes, none if either side matches nothing
Matches(g, label, value) ==
    {i \in DOMAIN g[label] : g[label][i][KeyOf(label)] = value}

\* The position of an entry within a relationship sequence carries no meaning:
\* no query enumerates relationships in order.
CreateRel(g, rel, fromLabel, fromValue, toLabel, toValue) ==
    LET A == Matches(g, fromLabel, fromValue)
        B == Matches(g, toLabel, toValue)
    IN [g EXCEPT ![rel] = @ \o (CHOOSE s \in Orderings(A \X B) : TRUE)]

(***************************************************************************)
(* Risk scores of networks are IEEE-754 doubles.  D(t) stands for the      *)
(* double nearest t/10; the numbers next to it stand for the doubles next  *)
(* to that one.  The sums the code forms are the doubles nearest the       *)
(* decimal sums, except that 0.6 + 0.3 gives 0.8999999999999999, the       *)
(* double just below 0.9.                                                  *)
(***************************************************************************)
D(t) == t * 16

\* (an addition of decimal numbers, without rounding)
ExactAdd(a, b) == a + b

FloatAdd(a, b) ==
    IF {a, b} = {D(6), D(3)} THEN D(9) - 1 ELSE a + b

Min(a, b) == IF a <= b THEN a ELSE b

HalfMillion == 500000
Million == 1000000

\* (a formula that takes a total of 500,000 for more than 500,000)
NetworkRiskScoreFromHalfMillion(record) ==
    LET claims_count == Get(record, "claims_count1", 0) + Get(record, "claims_count2", 0)
        total_amount == Get(record, "total_amount1", 0) + Get(record, "total_amount2", 0)
        base1 == D(3)
        base2 == IF claims_count > 5 THEN FloatAdd(base1, D(3))
                 ELSE IF claims_count > 2 THEN FloatAdd(base1, D(2))
                 ELSE base1
        base3 == IF total_amount > Million THEN FloatAdd(base2, D(3))
                 ELSE IF total_amount >= HalfMillion THEN FloatAdd(base2, D(2))
                 ELSE base2
    IN Min(base3, D(10))

NetworkRiskScore(record) ==
    LET claims_count == Get(record, "claims_count1", 0) + Get(record, "claims_count2", 0)
        total_amount == Get(record, "total_amount1", 0) + Get(record, "total_amount2", 0)
        base1 == D(3)
        base2 == IF claims_count > 5 THEN FloatAdd(base1, D(3))
                 ELSE IF claims_count > 2 THEN FloatAdd(base1, D(2))
                 ELSE base1
        base3 == IF total_amount > Million THEN FloatAdd(base2, D(3))
                 ELSE IF total_amount > HalfMillion THEN FloatAdd(base2, D(2))
                 ELSE base2
    IN Min(base3, D(10))

(***************************************************************************)
(* The pattern queries.  A query's result is a set of bindings of its node *)
(* variables; the store returns one row per binding, in an order of its    *)
(* choosing.                                                               *)
(***************************************************************************)
Owns(g, u, p) == <<u, p>> \in Range(g.owns)
HasClaim(g, p, c) == <<p, c>> \in Range(g.has_claim)
Filed(g, u, c) == <<u, c>> \in Range(g.filed)

\* (a phone detector that takes the claims a user FILED)
ClaimsViaFiled(g, u) == {c \in (DOMAIN g.claims) : Filed(g, u, c)}

\* collect(DISTINCT c) over (u)-[:OWNS]->(p)-[:HAS_CLAIM]->(c)
ClaimsVia(g, u) ==
    {c \in (DOMAIN g.claims) : \E p \in (DOMAIN g.policies) : Owns(g, u, p) /\ HasClaim(g, p, c)}

\* collect(DISTINCT c) over (p)-[:HAS_CLAIM]->(c)
ClaimsOf(g, p) == {c \in (DOMAIN g.claims) : HasClaim(g, p, c)}

RECURSIVE TotalAmount(_, _)
TotalAmount(g, C) ==
    IF C = {} THEN 0
    ELSE LET c == CHOOSE x \in C : TRUE
         IN g.claims[c].claimAmount + TotalAmount(g, C \ {c})

PhoneBindings(g) ==
    {b \in (DOMAIN g.users) \X (DOMAIN g.users) :
        /\ g.users[b[1]].phone = g.users[b[2]].phone
        /\ g.users[b[1]].userId # g.users[b[2]].userId
        /\ g.users[b[1]].phone # ""
        /\ ClaimsVia(g, b[1]) # {}
        /\ ClaimsVia(g, b[2]) # {}}

PhoneRow(g, b) ==
    [user1 |-> g.users[b[1]].userId,
     user2 |-> g.users[b[2]].userId,
     phone |-> g.users[b[1]].phone,
     claims_count1 |-> Cardinality(ClaimsVia(g, b[1])),
     claims_count2 |-> Cardinality(ClaimsVia(g, b[2])),
     total_amount1 |-> TotalAmount(g, ClaimsVia(g, b[1])),
     total_amount2 |-> TotalAmount(g, ClaimsVia(g, b[2]))]

PhoneNetwork(record) ==
    [type |-> "phone_network",
     users |-> <<record.user1, record.user2>>,
     shared_attribute |-> <<record.phone>>,
     risk_score |-> NetworkRiskScore(record),
     details |-> [phone |-> record.phone,
                  claims_count1 |-> record.claims_count1,
                  claims_count2 |-> record.claims_count2,
                  total_amount1 |-> record.total_amount1,
                  total_amount2 |-> record.total_amount2]]

PolicyBindings(g) ==
    {b \in (DOMAIN g.users) \X (DOMAIN g.users) \X (DOMAIN g.policies) \X (DOMAIN g.policies) :
        /\ Owns(g, b[1], b[3])
        /\ Owns(g, b[2], b[4])
        /\ g.users[b[1]].userId # g.users[b[2]].userId
        /\ g.policies[b[3]].insurance_type = g.policies[b[4]].insurance_type
        /\ g.policies[b[3]].policy_annual_premium = g.policies[b[4]].policy_annual_premium
        /\ g.policies[b[3]].sum_insured = g.policies[b[4]].sum_insured
        /\ g.policies[b[3]].policy_annual_premium > 0
        /\ ClaimsOf(g, b[3]) # {}
        /\ ClaimsOf(g, b[4]) # {}}

PolicyRow(g, b) ==
    [user1 |-> g.users[b[1]].userId,
     user2 |-> g.users[b[2]].userId,
     policy1 |-> g.policies[b[3]].policyId,
     policy2 |-> g.policies[b[4]].policyId,
     insurance_type |-> g.policies[b[3]].insurance_type,
     premium |-> g.policies[b[3]].policy_annual_premium,
     sum_insured |-> g.policies[b[3]].sum_insured,
     claims_count1 |-> Cardinality(ClaimsOf(g, b[3])),
     claims_count2 |-> Cardinality(ClaimsOf(g, b[4]))]

PolicyNetwork(record) ==
    [type |-> "policy_network",
     users |-> <<record.user1, record.user2>>,
     shared_attribute |-> <<"Same", record.insurance_type, "policy details">>,
     risk_score |-> NetworkRiskScore(record),
     details |-> [policy1 |-> record.policy1,
                  policy2 |-> record.policy2,
                  insurance_type |-> record.insurance_type,
                  premium |-> record.premium,
                  sum_insured |-> record.sum_insured,
                  claims_count1 |-> record.claims_count1,
                  claims_count2 |-> record.claims_count2]]

ClaimBindings(g) ==
    {b \in (DOMAIN g.users) \X (DOMAIN g.users) \X (DOMAIN g.claims) \X (DOMAIN g.claims)
           \X (DOMAIN g.policies) \X (DOMAIN g.policies) :
        /\ Filed(g, b[1], b[3])
        /\ Filed(g, b[2], b[4])
        /\ g.users[b[1]].userId # g.users[b[2]].userId
        /\ g.claims[b[3]].claimType = g.claims[b[4]].claimType
        /\ g.claims[b[3]].claimAmount = g.claims[b[4]].claimAmount
        /\ g.claims[b[3]].incidentDate = g.claims[b[4]].incidentDate
        /\ g.claims[b[3]].claimAmount > 0
        /\ HasClaim(g, b[5], b[3])
        /\ HasClaim(g, b[6], b[4])
        /\ g.policies[b[5]].insurance_type = g.policies[b[6]].insurance_type}

ClaimRow(g, b) ==
    [user1 |-> g.users[b[1]].userId,
     user2 |-> g.users[b[2]].userId,
     claim1 |-> g.claims[b[3]].claimId,
     claim2 |-> g.claims[b[4]].claimId,
     claim_type |-> g.claims[b[3]].claimType,
     claim_amount |-> g.claims[b[3]].claimAmount,
     incident_date |-> g.claims[b[3]].incidentDate,
     insurance_type |-> g.policies[b[5]].insurance_type]

\* (a claim network scored by the formula of the other two detectors)
ClaimNetworkScored(record) ==
    [type |-> "claim_network",
     users |-> <<record.user1, record.user2>>,
     shared_attribute |-> <<"Identical", record.claim_type, "claim">>,
     risk_score |-> NetworkRiskScore(record),
     details |-> [claim1 |-> record.claim1,
                  claim2 |-> record.claim2,
                  claim_type |-> record.claim_type,
                  claim_amount |-> record.claim_amount,
                  incident_date |-> record.incident_date,
                  insurance_type |-> record.insurance_type]]

ClaimNetwork(record) ==
    [type |-> "claim_network",
     users |-> <<record.user1, record.user2>>,
     shared_attribute |-> <<"Identical", record.claim_type, "claim">>,
     risk_score |-> D(9),
     details |-> [claim1 |-> record.claim1,
                  claim2 |-> record.claim2,
                  claim_type |-> record.claim_type,
                  claim_amount |-> record.claim_amount,
                  incident_date |-> record.incident_date,
                  insurance_type |-> record.insurance_type]]

\* the rows of a query in the order the store returned them, each turned into a
\* network by the detector's loop
PhoneNetworks(g, order) == [k \in DOMAIN order |-> PhoneNetwork(PhoneRow(g, order[k]))]

PolicyNetworks(g, order) == [k \in DOMAIN order |-> PolicyNetwork(PolicyRow(g, order[k]))]

ClaimNetworks(g, order) == [k \in DOMAIN order |-> ClaimNetwork(ClaimRow(g, order[k]))]

\* tuple(sorted(network['users'])): equal for two networks exactly when they hold
\* the same two user ids, in either order
UserKey(network) == {network.users[1], network.users[2]}

\* (a deduplication that keeps the last network of each pair)
KeepLastNetworks(networks) ==
    LET RECURSIVE Loop(_)
        Loop(k) ==
            IF k > Len(networks) THEN <<>>
            ELSE IF \E j \in (k + 1)..Len(networks) : UserKey(networks[j]) = UserKey(networks[k])
                 THEN Loop(k + 1)
                 ELSE <<networks[k]>> \o Loop(k + 1)
    IN Loop(1)

\* (no deduplication)
KeepAllNetworks(networks) == networks

RemoveDuplicateNetworks(networks) ==
    LET RECURSIVE Loop(_, _)
        Loop(k, seen) ==
            IF k > Len(networks) THEN <<>>
            ELSE IF UserKey(networks[k]) \notin seen
                 THEN <<networks[k]>> \o Loop(k + 1, seen \cup {UserKey(networks[k])})
                 ELSE Loop(k + 1, seen)
    IN Loop(1, {})

\* the rows of get_network_visualization_data's query
VisualizationBindings(g) ==
    {b \in (DOMAIN g.users) \X (DOMAIN g.claims) :
        Filed(g, b[1], b[2]) /\ GreaterThan(g.claims[b[2]].fraudScore, 50)}

(***************************************************************************)
(* The indicator analyzer and the risk scorer.  Their queries group the    *)
(* claims by the User node that FILED them, one claim per relationship.    *)
(* A quotient is kept exact, as num / den; the double the program holds is *)
(* the one nearest to it.                                                  *)
(***************************************************************************)
\* collect(c) of MATCH (u:User)-[:FILED]->(c:Claim), for the User node u
ClaimsFiled(g, u) ==
    LET rels == SelectSeq(g.filed, LAMBDA r : r[1] = u)
    IN [k \in DOMAIN rels |-> g.claims[rels[k][2]]]

\* the store's addition: integers stay integers, a null makes the sum null
Plus(a, b) ==
    IF a.type = "null" \/ b.type = "null" THEN Null
    ELSE IF a.type = "int" /\ b.type = "int" THEN [type |-> "int", h |-> a.h + b.h]
    ELSE [type |-> "float", h |-> a.h + b.h]

\* reduce(total = 0, claim in claims | total + claim.fraudScore)
RECURSIVE ReduceFraudScore(_, _)
ReduceFraudScore(total, claims) ==
    IF claims = <<>> THEN total
    ELSE ReduceFraudScore(Plus(total, Head(claims).fraudScore), Tail(claims))

\* reduce(total = 0, claim in claims | total + claim.claimAmount)
RECURSIVE ReduceAmount(_, _)
ReduceAmount(total, claims) ==
    IF claims = <<>> THEN total
    ELSE ReduceAmount(total + Head(claims).claimAmount, Tail(claims))

\* reduce(max_val = 0, claim in claims | CASE WHEN claim.claimAmount > max_val ...)
RECURSIVE ReduceMax(_, _)
ReduceMax(max_val, claims) ==
    IF claims = <<>> THEN max_val
    ELSE ReduceMax(IF Head(claims).claimAmount > max_val
                   THEN Head(claims).claimAmount ELSE max_val, Tail(claims))

\* total / size(claims) as the store divides: the quotient of two integers is
\* an integer, truncated; a null stays null
Divide(total, n) ==
    IF total.type = "int"
    THEN [type |-> "int", num |-> ((total.h \div 100) \div n) * 100 * n, den |-> 100 * n]
    ELSE [type |-> total.type, num |-> total.h, den |-> 100 * n]

\* comparison of quotients
Less(a, b) == a.num * b.den < b.num * a.den

\* the first n rows: LIMIT n
Limit(rows, n) == SubSeq(rows, 1, Min(Len(rows), n))

HighFraudLimit == 20
FallbackLimit == 10

\* the User nodes with a row in the high fraud score query, and their rows
HighFraudClaims(g, u) ==
    SelectSeq(ClaimsFiled(g, u), LAMBDA c : GreaterThan(c.fraudScore, 70))

HighFraudUsers(g) == {u \in DOMAIN g.users : Len(HighFraudClaims(g, u)) > 0}

HighFraudRow(g, u) ==
    LET claims == HighFraudClaims(g, u)
    IN [userId |-> g.users[u].userId,
        phone |-> g.users[u].phone,
        claim_count |-> Len(claims),
        avg_fraud_score |-> Divide(ReduceFraudScore(Integer(0), claims), Len(claims)),
        total_amount |-> ReduceAmount(0, claims)]

\* ORDER BY avg_fraud_score DESC: rows of equal average come in any order
ByAverage(rows) ==
    \A j, k \in DOMAIN rows :
        j < k => ~Less(rows[j].avg_fraud_score, rows[k].avg_fraud_score)

HighFraudScoreUsers(g, order) ==
    Limit([k \in DOMAIN order |-> HighFraudRow(g, order[k])], HighFraudLimit)

\* What the store makes of a submittedDate.  dash and t say whether the text
\* CONTAINS '-' and 'T'; valid says whether date() or datetime() reads it, which
\* raise on a text they cannot read; day numbers are at most 28.
DateTexts ==
    [text \in {"2024-01-05", "2024-01-20", "2024-03-01", "01/05/2024", "05-01-2024"} |->
        CASE text = "2024-01-05" ->
               [dash |-> TRUE, t |-> FALSE, valid |-> TRUE, date |-> <<2024, 1, 5>>]
          [] text = "2024-01-20" ->
               [dash |-> TRUE, t |-> FALSE, valid |-> TRUE, date |-> <<2024, 1, 20>>]
          [] text = "2024-03-01" ->
               [dash |-> TRUE, t |-> FALSE, valid |-> TRUE, date |-> <<2024, 3, 1>>]
          [] text = "01/05/2024" ->
               [dash |-> FALSE, t |-> FALSE, valid |-> FALSE, date |-> <<0, 0, 0>>]
          [] text = "05-01-2024" ->
               [dash |-> TRUE, t |-> FALSE, valid |-> FALSE, date |-> <<0, 0, 0>>]]

\* the claims that pass WHERE c.submittedDate IS NOT NULL AND c.submittedDate <> ''
Dated(claims) == SelectSeq(claims, LAMBDA c : c.submittedDate # "")

\* the CASE expression raises: a text with a '-' that is no date
Unreadable(c) == DateTexts[c.submittedDate].dash /\ ~DateTexts[c.submittedDate].valid

\* the claims WHERE parsed_date IS NOT NULL
Parsed(claims) == SelectSeq(Dated(claims), LAMBDA c : DateTexts[c.submittedDate].dash)

Before(a, b) ==
    \/ a[1] < b[1]
    \/ a[1] = b[1] /\ a[2] < b[2]
    \/ a[1] = b[1] /\ a[2] = b[2] /\ a[3] < b[3]

\* reduce(max_date = head(dates), date in dates | ...) and its min_date twin
RECURSIVE Latest(_, _)
Latest(max_date, dates) ==
    IF dates = <<>> THEN max_date
    ELSE Latest(IF Before(max_date, Head(dates)) THEN Head(dates) ELSE max_date,
                Tail(dates))

RECURSIVE Earliest(_, _)
Earliest(min_date, dates) ==
    IF dates = <<>> THEN min_date
    ELSE Earliest(IF Before(Head(dates), min_date) THEN Head(dates) ELSE min_date,
                  Tail(dates))

DaysInMonth(year, month) ==
    IF month = 2 THEN (IF year % 4 = 0 /\ (year % 100 # 0 \/ year % 400 = 0) THEN 29 ELSE 28)
    ELSE IF month \in {4, 6, 9, 11} THEN 30 ELSE 31

\* duration.between(earliest, latest).days: the days left over after the whole
\* months between the two dates, never their distance in days
DurationDays(earliest, latest) ==
    IF latest[3] >= earliest[3] THEN latest[3] - earliest[3]
    ELSE LET month == IF latest[2] = 1 THEN 12 ELSE latest[2] - 1
             year == IF latest[2] = 1 THEN latest[1] - 1 ELSE latest[1]
         IN latest[3] - earliest[3] + DaysInMonth(year, month)

RapidWindow == 30

RapidRaises(g) ==
    \E u \in DOMAIN g.users :
        \E k \in DOMAIN Dated(ClaimsFiled(g, u)) : Unreadable(Dated(ClaimsFiled(g, u))[k])

RapidDates(g, u) ==
    LET claims == Parsed(ClaimsFiled(g, u))
    IN [k \in DOMAIN claims |-> DateTexts[claims[k].submittedDate].date]

RapidUsers(g) ==
    {u \in DOMAIN g.users :
        LET dates == RapidDates(g, u)
        IN /\ Len(dates) >= 2
           /\ DurationDays(Earliest(Head(dates), dates), Latest(Head(dates), dates))
                <= RapidWindow}

\* an entry of rapid_claim_filers; the date-windowed query and the fallback
\* query both end in it
FilerEntry(g, u, claims) ==
    [userId |-> g.users[u].userId,
     phone |-> g.users[u].phone,
     claim_count |-> Len(claims),
     total_amount |-> ReduceAmount(0, claims)]

\* ORDER BY claim_count DESC: rows of equal count come in any order
ByClaimCount(rows) ==
    \A j, k \in DOMAIN rows : j < k => rows[j].claim_count >= rows[k].claim_count

RapidClaimFilers(g, order) ==
    [k \in DOMAIN order |-> FilerEntry(g, order[k], Parsed(ClaimsFiled(g, order[k])))]

\* (a fallback for the users with more than two claims)
RepeatUsersOverTwo(g) == {u \in DOMAIN g.users : Len(ClaimsFiled(g, u)) > 2}

\* the fallback query
RepeatUsers(g) == {u \in DOMAIN g.users : Len(ClaimsFiled(g, u)) >= 2}

FallbackFilers(g, order) ==
    Limit([k \in DOMAIN order |-> FilerEntry(g, order[k], ClaimsFiled(g, order[k]))],
          FallbackLimit)

\* _calculate_risk_scores: the rows of its query and the entry made of a row
ScoredUsers(g) == {u \in DOMAIN g.users : Len(ClaimsFiled(g, u)) > 0}

RiskRow(g, u) ==
    LET claims == ClaimsFiled(g, u)
    IN [userId |-> g.users[u].userId,
        claim_count |-> Len(claims),
        avg_fraud_score |-> Divide(ReduceFraudScore(Integer(0), claims), Len(claims)),
        total_amount |-> ReduceAmount(0, claims),
        max_claim_amount |-> ReduceMax(0, claims)]

\* record['avg_fraud_score'] or 0
OrZero(avg) == IF avg.type = "null" THEN [avg EXCEPT !.type = "int", !.num = 0] ELSE avg

\* a scorer that takes any claim count for the full claim count score
OverallRiskFullCount(record) ==
    LET n == record.claim_count
    IN [num |-> 3 * 10 * 100000 * n
                  + OrZero(record.avg_fraud_score).num * 50000
                  + 2 * Min(record.total_amount, Million) * n,
        den |-> 10000000 * n]

\* (a scorer that weighs the amount score with 0.5)
OverallRiskAmountHalf(record) ==
    LET n == record.claim_count
    IN [num |-> 3 * Min(n, 10) * 100000 * n
                  + OrZero(record.avg_fraud_score).num * 50000
                  + 5 * Min(record.total_amount, Million) * n,
        den |-> 10000000 * n]

\* claim_count_score * 0.3 + fraud_score * 0.5 + amount_score * 0.2, over the
\* denominator 10^7 * claim_count
OverallRisk(record) ==
    LET n == record.claim_count
    IN [num |-> 3 * Min(n, 10) * 100000 * n
                  + OrZero(record.avg_fraud_score).num * 50000
                  + 2 * Min(record.total_amount, Million) * n,
        den |-> 10000000 * n]

RiskEntry(record) ==
    [overall_risk |-> OverallRisk(record),
     claim_count |-> record.claim_count,
     avg_fraud_score |-> OrZero(record.avg_fraud_score),
     total_amount |-> record.total_amount,
     max_claim_amount |-> record.max_claim_amount]

\* the dictionary after the rows of order: a later row of one userId replaces
\* the earlier one
RECURSIVE RiskScores(_, _, _)
RiskScores(g, order, k) ==
    IF k = 0 THEN <<>>
    ELSE LET record == RiskRow(g, order[k])
         IN (record.userId :> RiskEntry(record)) @@ RiskScores(g, order, k - 1)

\* a generator that takes a score of 0.7 for a high risk
AtLeastHighRisk(score) == score.overall_risk.num * 10 >= 7 * score.overall_risk.den

\* score['overall_risk'] > 0.7
HighRisk(score) == score.overall_risk.num * 10 > 7 * score.overall_risk.den

\* _generate_recommendations; a message is its wording and the count in it
GenerateRecommendations(results) ==
    LET high_risk_users == {user \in DOMAIN results.risk_scores :
                               HighRisk(results.risk_scores[user])}
        rapid == results.fraud_indicators.rapid_claim_filers
    IN (IF results.suspicious_networks # <<>>
        THEN << [message |-> "suspicious networks detected - investigate immediately",
                 count |-> Len(results.suspicious_networks)] >>
        ELSE <<>>)
       \o (IF high_risk_users # {}
           THEN << [message |-> "high-risk users identified - manual review required",
                    count |-> Cardinality(high_risk_users)] >>
           ELSE <<>>)
       \o (IF rapid # <<>>
           THEN << [message |-> "users filing claims rapidly - investigate patterns",
                    count |-> Len(rapid)] >>
           ELSE <<>>)

(***************************************************************************)
(* Requests.  A worker is idle, or inside a handler at the store operation *)
(* named by pc, or done with the response it sent.                         *)
(***************************************************************************)
NoIndicators ==
    [high_fraud_score_users |-> <<>>, rapid_claim_filers |-> <<>>,
     suspicious_amounts |-> <<>>, time_patterns |-> <<>>, document_patterns |-> <<>>]

Idle ==
    [pc |-> "idle", route |-> "", data |-> NoPayload, i |-> 0,
     networks |-> <<>>, status |-> 0, error |-> "",
     \* the rest of the results of detect_fraud_rings
     indicators |-> NoIndicators, risk_scores |-> <<>>, recommendations |-> <<>>,
     \* the data of get_network_visualization_data
     visualization |-> [nodes |-> <<>>, edges |-> <<>>],
     \* history of the networks the detectors returned, before deduplication
     found |-> <<>>,
     \* history of the graphs the queries of this request read
     views |-> {},
     \* history of the call of load_data_from_firestore this request made
     call |-> "none", first |-> FALSE, again |-> FALSE, before |-> <<>>]

Counts(g) ==
    <<Len(g.users), Len(g.policies), Len(g.claims),
      Len(g.owns), Len(g.has_claim), Len(g.filed)>>

NoCall == [data |-> NoPayload, result |-> "none"]

\* the response of a handler: what jsonify sends, and the exception, if any, that
\* the handler's except clause turned into it
Respond(r, code, exception) ==
    [r EXCEPT !.pc = "done", !.status = code, !.error = exception, !.i = 0,
              !.data = NoPayload]

\* (a load that forgets the FILED relationships)
PhasesWithoutFiled == <<"users", "policies", "claims", "owns", "has_claim">>

\* (a load that creates the OWNS relationships before the Claim nodes)
PhasesOwnsEarly == <<"users", "policies", "owns", "claims", "has_claim", "filed">>

Phases == <<"users", "policies", "claims", "owns", "has_claim", "filed">>

\* the list a loop of the load runs over
ListOf(phase, data) ==
    CASE phase = "users" -> data.users
      [] phase \in {"policies", "owns"} -> data.policies
      [] phase \in {"claims", "has_claim", "filed"} -> data.claims

\* the next loop of the load, after loop k, that has a record to work on; the
\* first detector query when there is none
RECURSIVE PhaseAfter(_, _)
PhaseAfter(k, data) ==
    IF k >= Len(Phases) THEN "phone"
    ELSE IF Len(ListOf(Phases[k + 1], data)) > 0 THEN Phases[k + 1]
    ELSE PhaseAfter(k + 1, data)

PhaseIndex(phase) == CHOOSE k \in DOMAIN Phases : Phases[k] = phase

\* one iteration of a loop of the load is over
Iterated(r) ==
    IF r.i < Len(ListOf(r.pc, r.data))
    THEN [r EXCEPT !.i = r.i + 1]
    ELSE [r EXCEPT !.pc = PhaseAfter(PhaseIndex(r.pc), r.data), !.i = 1]

\* load_data_from_firestore returns once its last relationship is created
Returned(r) == IF r.pc = "phone" THEN [r EXCEPT !.call = "returned"] ELSE r

\* an exception leaves load_data_from_firestore and reaches the handler's except clause
Raised(r, exception) == Respond([r EXCEPT !.call = "raised"], 500, exception)

Init ==
    /\ serving = FALSE
    /\ detector = "None"
    /\ session = "None"
    /\ constraints = {}
    /\ graph = EmptyGraph
    /\ req = [w \in Workers |-> Idle]
    /\ hist = NoCall

\* CREATE CONSTRAINT ... IF NOT EXISTS: refused by the store, and the refusal
\* swallowed by create_schema, when nodes already in the store share a key
SchemaCreated(g, cons) ==
    cons \cup {label \in AllConstraints :
                 \A i, j \in DOMAIN g[label] :
                    g[label][i][KeyOf(label)] = g[label][j][KeyOf(label)] => i = j}

\* api_server.py start-up: init_detector unless NEO4J_PASSWORD is empty
Startup ==
    /\ ~serving
    /\ serving' = TRUE
    /\ \E outcome \in {"no password", "no session", "connected"} :
         /\ detector' = IF outcome = "no password" THEN "None" ELSE "object"
         /\ session' = IF outcome = "connected" THEN "open" ELSE "None"
         /\ constraints' = IF outcome = "connected"
                           THEN SchemaCreated(graph, constraints)
                           ELSE constraints
    /\ UNCHANGED <<graph, req, hist>>

\* load_data_from_firestore is called with data: what the request remembers of it
Called(r, h, g, data) ==
    [r EXCEPT !.call = "running",
              !.first = h.result = "none",
              !.again = h.result \in {"returned", "raised"} /\ h.data = data,
              !.before = IF h.result \in {"returned", "raised"} /\ h.data = data
                         THEN Counts(g) ELSE <<>>]

\* (a handler that calls the load whatever the lists hold)
RequestedUnchecked(w, payloads) ==
    /\ serving
    /\ req[w].pc = "idle"
    /\ \E data \in payloads :
         LET r == [Idle EXCEPT !.route = "detect"]
         IN IF detector = "None"
            THEN /\ req' = [req EXCEPT ![w] = Respond(r, 503, "")]
                 /\ UNCHANGED <<graph, hist>>
            ELSE IF session = "None"
            THEN /\ req' = [req EXCEPT ![w] =
                              Raised(Called(r, hist, graph, data), "AttributeError")]
                 /\ hist' = [data |-> data, result |-> "raised"]
                 /\ graph' = graph
            ELSE /\ graph' = Wiped(graph)
                 /\ req' = [req EXCEPT ![w] =
                              Returned([Called(r, hist, graph, data) EXCEPT
                                          !.pc = PhaseAfter(0, data), !.i = 1, !.data = data])]
                 /\ hist' = [data |-> data, result |-> req'[w].call]
    /\ UNCHANGED <<serving, detector, session, constraints>>

\* POST /api/fraud-rings/detect: the handler's checks, which touch nothing shared,
\* and the first store operation of load_data_from_firestore, which clears the graph
Requested(w, payloads) ==
    /\ serving
    /\ req[w].pc = "idle"
    /\ \E data \in payloads :
         LET r == [Idle EXCEPT !.route = "detect"]
         IN IF detector = "None"
            THEN /\ req' = [req EXCEPT ![w] = Respond(r, 503, "")]
                 /\ UNCHANGED <<graph, hist>>
            ELSE IF data.users = <<>> \/ data.policies = <<>> \/ data.claims = <<>>
            THEN /\ req' = [req EXCEPT ![w] = Respond(r, 400, "")]
                 /\ UNCHANGED <<graph, hist>>
            ELSE IF session = "None"
            THEN /\ req' = [req EXCEPT ![w] =
                              Raised(Called(r, hist, graph, data), "AttributeError")]
                 /\ hist' = [data |-> data, result |-> "raised"]
                 /\ graph' = graph
            ELSE /\ graph' = Wiped(graph)
                 /\ req' = [req EXCEPT ![w] =
                              Returned([Called(r, hist, graph, data) EXCEPT
                                          !.pc = PhaseAfter(0, data), !.i = 1, !.data = data])]
                 /\ hist' = [data |-> data, result |-> req'[w].call]
    /\ UNCHANGED <<serving, detector, session, constraints>>

Request(w) == Requested(w, Payloads)

\* one iteration of a node-creating loop of the load
LoadNode(w, label, node) ==
    /\ req[w].pc = label
    /\ IF Violates(graph, constraints, label, node)
       THEN /\ req' = [req EXCEPT ![w] = Raised(@, "ConstraintError")]
            /\ hist' = [hist EXCEPT !.result = "raised"]
            /\ graph' = graph
       ELSE /\ graph' = CreateNode(graph, label, node)
            /\ req' = [req EXCEPT ![w] = Returned(Iterated(@))]
            /\ hist' = [hist EXCEPT !.result = req'[w].call]
    /\ UNCHANGED <<serving, detector, session, constraints>>

CreateUser(w) ==
    /\ req[w].pc = "users"
    /\ LoadNode(w, "users", UserNode(req[w].data.users[req[w].i]))

CreatePolicy(w) ==
    /\ req[w].pc = "policies"
    /\ LoadNode(w, "policies", PolicyNode(req[w].data.policies[req[w].i]))

CreateClaim(w) ==
    /\ req[w].pc = "claims"
    /\ LoadNode(w, "claims", ClaimNode(req[w].data.claims[req[w].i]))

\* one iteration of a loop of _create_relationships
LoadRel(w, rel, fromLabel, fromValue, toLabel, toValue) ==
    /\ req[w].pc = rel
    /\ graph' = CreateRel(graph, rel, fromLabel, fromValue, toLabel, toValue)
    /\ req' = [req EXCEPT ![w] = Returned(Iterated(@))]
    /\ hist' = [hist EXCEPT !.result = req'[w].call]
    /\ UNCHANGED <<serving, detector, session, constraints>>

CreateOwns(w) ==
    /\ req[w].pc = "owns"
    /\ LET policy == req[w].data.policies[req[w].i]
       IN LoadRel(w, "owns", "users", Get(policy, "userId", ""),
                  "policies", Get(policy, "policyId", ""))

CreateHasClaim(w) ==
    /\ req[w].pc = "has_claim"
    /\ LET claim == req[w].data.claims[req[w].i]
       IN LoadRel(w, "has_claim", "policies", Get(claim, "policyId", ""),
                  "claims", Get(claim, "claimId", ""))

CreateFiled(w) ==
    /\ req[w].pc = "filed"
    /\ LET claim == req[w].data.claims[req[w].i]
       IN LoadRel(w, "filed", "users", Get(claim, "userId", ""),
                  "claims", Get(claim, "claimId", ""))

\* the nodes that the loops of load_data_from_firestore create of a payload
UserNodes(data) == [k \in DOMAIN data.users |-> UserNode(data.users[k])]
PolicyNodes(data) == [k \in DOMAIN data.policies |-> PolicyNode(data.policies[k])]
ClaimNodes(data) == [k \in DOMAIN data.claims |-> ClaimNode(data.claims[k])]

\* a loop of _create_relationships, from its record k on
RECURSIVE RelsCreated(_, _, _, _, _, _)
RelsCreated(g, rel, fromLabel, toLabel, recs, k) ==
    IF k > Len(recs) THEN g
    ELSE RelsCreated(CreateRel(g, rel, fromLabel, Get(recs[k], KeyOf(fromLabel), ""),
                               toLabel, Get(recs[k], KeyOf(toLabel), "")),
                     rel, fromLabel, toLabel, recs, k + 1)

\* the graph that load_data_from_firestore leaves when no node creation raises
Loaded(data) ==
    LET nodes == [EmptyGraph EXCEPT !.users = UserNodes(data),
                                    !.policies = PolicyNodes(data),
                                    !.claims = ClaimNodes(data)]
        owns == RelsCreated(nodes, "owns", "users", "policies", data.policies, 1)
        has_claim == RelsCreated(owns, "has_claim", "policies", "claims", data.claims, 1)
    IN RelsCreated(has_claim, "filed", "users", "claims", data.claims, 1)

\* a view that takes every graph for the graph of the request's own load
ViewOwn(g, data) == "own"

\* what a query of a request with the payload data reads in the graph g: the
\* graph its own load built, an empty graph, or something else
View(g, data) ==
    IF g = Loaded(data) THEN "own"
    ELSE IF g = EmptyGraph THEN "empty"
    ELSE "foreign"

\* detect_fraud_rings, _detect_suspicious_networks: the three detector queries
DetectPhone(w) ==
    /\ req[w].pc = "phone"
    /\ \E order \in Orderings(PhoneBindings(graph)) :
         req' = [req EXCEPT ![w] =
                   [@ EXCEPT !.pc = "policy",
                             !.networks = @ \o PhoneNetworks(graph, order),
                             !.views = @ \cup {View(graph, req[w].data)}]]
    /\ UNCHANGED <<serving, detector, session, constraints, graph, hist>>

DetectPolicy(w) ==
    /\ req[w].pc = "policy"
    /\ \E order \in Orderings(PolicyBindings(graph)) :
         req' = [req EXCEPT ![w] =
                   [@ EXCEPT !.pc = "claim",
                             !.networks = @ \o PolicyNetworks(graph, order),
                             !.views = @ \cup {View(graph, req[w].data)}]]
    /\ UNCHANGED <<serving, detector, session, constraints, graph, hist>>

DetectClaim(w) ==
    /\ req[w].pc = "claim"
    /\ \E order \in Orderings(ClaimBindings(graph)) :
         req' = [req EXCEPT ![w] =
                   LET networks == req[w].networks
                                       \o ClaimNetworks(graph, order)
                   IN [@ EXCEPT !.pc = "high_fraud",
                                !.networks = RemoveDuplicateNetworks(networks),
                                !.found = networks,
                                !.views = @ \cup {View(graph, req[w].data)}]]
    /\ UNCHANGED <<serving, detector, session, constraints, graph, hist>>

\* an exception leaves detect_fraud_rings and the handler answers it: the
\* response carries the error and none of the results
Failed(r, exception) ==
    Respond([r EXCEPT !.networks = <<>>, !.indicators = NoIndicators,
                      !.risk_scores = <<>>, !.recommendations = <<>>],
            500, exception)

\* _analyze_fraud_indicators: the high fraud score query
AnalyzeHighFraud(w) ==
    /\ req[w].pc = "high_fraud"
    /\ \E order \in Orderings(HighFraudUsers(graph)) :
         /\ ByAverage([k \in DOMAIN order |-> HighFraudRow(graph, order[k])])
         /\ req' = [req EXCEPT ![w] =
                      [@ EXCEPT !.pc = "rapid",
                                !.indicators.high_fraud_score_users =
                                    HighFraudScoreUsers(graph, order),
                                !.views = @ \cup {View(graph, req[w].data)}]]
    /\ UNCHANGED <<serving, detector, session, constraints, graph, hist>>

\* _analyze_fraud_indicators: the date-windowed query of the rapid claim filers;
\* the fallback follows when it had no row
AnalyzeRapid(w) ==
    /\ req[w].pc = "rapid"
    /\ IF RapidRaises(graph)
       THEN req' = [req EXCEPT ![w] =
                      Failed([@ EXCEPT !.views = @ \cup {View(graph, req[w].data)}],
                             "ClientError")]
       ELSE \E order \in Orderings(RapidUsers(graph)) :
              /\ ByClaimCount(RapidClaimFilers(graph, order))
              /\ req' = [req EXCEPT ![w] =
                           [@ EXCEPT !.pc = IF Len(order) = 0 THEN "fallback" ELSE "risk",
                                     !.indicators.rapid_claim_filers =
                                         @ \o RapidClaimFilers(graph, order),
                                     !.views = @ \cup {View(graph, req[w].data)}]]
    /\ UNCHANGED <<serving, detector, session, constraints, graph, hist>>

\* _analyze_fraud_indicators: the fallback query
AnalyzeFallback(w) ==
    /\ req[w].pc = "fallback"
    /\ \E order \in Orderings(RepeatUsers(graph)) :
         /\ ByClaimCount([k \in DOMAIN order |->
                             FilerEntry(graph, order[k], ClaimsFiled(graph, order[k]))])
         /\ req' = [req EXCEPT ![w] =
                      [@ EXCEPT !.pc = "risk",
                                !.indicators.rapid_claim_filers =
                                    @ \o FallbackFilers(graph, order),
                                !.views = @ \cup {View(graph, req[w].data)}]]
    /\ UNCHANGED <<serving, detector, session, constraints, graph, hist>>

\* the results of detect_fraud_rings as _generate_recommendations gets them
Results(r, risk_scores) ==
    [suspicious_networks |-> r.networks,
     fraud_indicators |-> r.indicators,
     risk_scores |-> risk_scores]

\* _calculate_risk_scores, then _generate_recommendations, and the handler sends
\* the results
CalculateRiskScores(w) ==
    /\ req[w].pc = "risk"
    /\ \E order \in Orderings(ScoredUsers(graph)) :
         req' = [req EXCEPT ![w] =
                   LET risk_scores == RiskScores(graph, order, Len(order))
                   IN Respond([@ EXCEPT !.risk_scores = risk_scores,
                                        !.recommendations =
                                            GenerateRecommendations(Results(req[w], risk_scores)),
                                        !.views = @ \cup {View(graph, req[w].data)}],
                              200, "")]
    /\ UNCHANGED <<serving, detector, session, constraints, graph, hist>>

\* get_network_visualization_data: the loop over the rows reads the column
\* 'claimAmount', which the query returns as 'c.claimAmount', so the first row
\* raises; without a row the lists stay empty
VisualizationData(g) ==
    IF VisualizationBindings(g) # {} THEN [raised |-> TRUE, nodes |-> <<>>, edges |-> <<>>]
    ELSE [raised |-> FALSE, nodes |-> <<>>, edges |-> <<>>]

\* GET /api/fraud-rings/visualization
Visualization(w) ==
    /\ serving
    /\ req[w].pc = "idle"
    /\ req' = [req EXCEPT ![w] =
                 LET r == [Idle EXCEPT !.route = "visualization"]
                 IN IF detector = "None" THEN Respond(r, 500, "")
                    ELSE IF session = "None" THEN Respond(r, 500, "AttributeError")
                    ELSE IF VisualizationData(graph).raised THEN Respond(r, 500, "KeyError")
                    ELSE Respond([r EXCEPT !.visualization =
                                     [nodes |-> VisualizationData(graph).nodes,
                                      edges |-> VisualizationData(graph).edges]],
                                 200, "")]
    /\ UNCHANGED <<serving, detector, session, constraints, graph, hist>>

\* the response is on its way to the client, the worker is free again
Sent(w) ==
    /\ req[w].pc = "done"
    /\ req' = [req EXCEPT ![w] = Idle]
    /\ UNCHANGED <<serving, detector, session, constraints, graph, hist>>

Handler(w) ==
    \/ Request(w)
    \/ CreateUser(w)
    \/ CreatePolicy(w)
    \/ CreateClaim(w)
    \/ CreateOwns(w)
    \/ CreateHasClaim(w)
    \/ CreateFiled(w)
    \/ DetectPhone(w)
    \/ DetectPolicy(w)
    \/ DetectClaim(w)
    \/ AnalyzeHighFraud(w)
    \/ AnalyzeRapid(w)
    \/ AnalyzeFallback(w)
    \/ CalculateRiskScores(w)
    \/ Visualization(w)
    \/ Sent(w)

\* requests handled one at a time
Next ==
    \/ Startup
    \/ \E w \in SerialWorkers : Handler(w)

Spec == Init /\ [][Next]_vars

(***************************************************************************)
(* What the properties below speak of.                                     *)
(***************************************************************************)

Injective(nodes, key) ==
    \A j, k \in DOMAIN nodes : nodes[j][key] = nodes[k][key] => j = k

\* the ids are unique within each list of the payload
UniqueIds(data) ==
    /\ Injective(UserNodes(data), "userId")
    /\ Injective(PolicyNodes(data), "policyId")
    /\ Injective(ClaimNodes(data), "claimId")

\* the relationships of one type that the foreign keys of the nodes call for
Implied(g, fromLabel, toLabel) ==
    {e \in (DOMAIN g[fromLabel]) \X (DOMAIN g[toLabel]) :
        g[toLabel][e[2]][KeyOf(fromLabel)] = g[fromLabel][e[1]][KeyOf(fromLabel)]}

\* every relationship of the sequence is one of E, and each of E is there once
ExactlyOnce(rels, E) == Range(rels) = E /\ Len(rels) = Cardinality(E)

\* g is the complete graph of a payload: a node per record and the relationships
\* its foreign keys call for, no more
CompleteGraphOf(g, data) ==
    /\ g.users = UserNodes(data)
    /\ g.policies = PolicyNodes(data)
    /\ g.claims = ClaimNodes(data)
    /\ ExactlyOnce(g.owns, Implied(g, "users", "policies"))
    /\ ExactlyOnce(g.has_claim, Implied(g, "policies", "claims"))
    /\ ExactlyOnce(g.filed, Implied(g, "users", "claims"))

LoadEnded(w) == req[w].call \in {"returned", "raised"}

DetectDone(w) ==
    req[w].pc = "done" /\ req[w].route = "detect" /\ req[w].status = 200

\* C1: with the store connected, a load whose payload has unique ids within each
\* list does not raise, and when it has returned the graph holds one User, Policy
\* and Claim node per record, an OWNS relationship for a policy record iff a User
\* node has its userId, a HAS_CLAIM relationship for a claim record iff a Policy
\* node has its policyId, a FILED relationship for a claim record iff a User node
\* has its userId, and no other relationship.
LoadBuildsGraph ==
    \A w \in Workers :
        /\ (req[w].call = "raised" /\ session = "open") => ~UniqueIds(hist.data)
        /\ req[w].call = "returned" =>
             /\ Len(graph.users) = Len(hist.data.users)
             /\ Len(graph.policies) = Len(hist.data.policies)
             /\ Len(graph.claims) = Len(hist.data.claims)
             /\ \A k \in DOMAIN hist.data.policies :
                  (\E e \in Range(graph.owns) :
                      /\ e[2] = k
                      /\ graph.users[e[1]].userId = Get(hist.data.policies[k], "userId", ""))
                  <=> (\E u \in DOMAIN graph.users :
                         graph.users[u].userId = Get(hist.data.policies[k], "userId", ""))
             /\ \A k \in DOMAIN hist.data.claims :
                  /\ (\E e \in Range(graph.has_claim) :
                        /\ e[2] = k
                        /\ graph.policies[e[1]].policyId
                             = Get(hist.data.claims[k], "policyId", ""))
                     <=> (\E q \in DOMAIN graph.policies :
                            graph.policies[q].policyId
                              = Get(hist.data.claims[k], "policyId", ""))
                  /\ (\E e \in Range(graph.filed) :
                        /\ e[2] = k
                        /\ graph.users[e[1]].userId = Get(hist.data.claims[k], "userId", ""))
                     <=> (\E u \in DOMAIN graph.users :
                            graph.users[u].userId = Get(hist.data.claims[k], "userId", ""))
             /\ ExactlyOnce(graph.owns, Implied(graph, "users", "policies"))
             /\ ExactlyOnce(graph.has_claim, Implied(graph, "policies", "claims"))
             /\ ExactlyOnce(graph.filed, Implied(graph, "users", "claims"))

\* a load has returned that left a policy without its owner and a claim with both
\* of its relationships
LoadBuildsGraphWitness ==
    \E w \in Workers :
        /\ req[w].call = "returned"
        /\ Len(graph.policies) = 2
        /\ Len(graph.owns) = 1
        /\ Len(graph.has_claim) >= 1
        /\ Len(graph.filed) >= 1

\* C2: a load called with the payload of the load called just before it leaves the
\* numbers of User, Policy and Claim nodes and of OWNS, HAS_CLAIM and FILED
\* relationships that the first of the two calls left.
LoadIdempotentOnCounts ==
    \A w \in Workers :
        (req[w].again /\ LoadEnded(w)) => Counts(graph) = req[w].before

LoadIdempotentWitness ==
    \E w \in Workers :
        /\ req[w].again
        /\ req[w].call = "returned"
        /\ Len(graph.owns) = 2
        /\ Len(graph.filed) = 2

\* C3, as claimed, for the first load of a store that starts empty: once the load
\* has returned or raised, the graph that the next read sees is the complete graph
\* before the load (the empty graph) or the complete graph of the payload.
LoadAtomic ==
    \A w \in Workers :
        (req[w].first /\ LoadEnded(w)) =>
            graph = EmptyGraph \/ CompleteGraphOf(graph, hist.data)

\* C3, amended: as long as the most recent load is one that returned, the graph a
\* read sees is exactly the complete graph of that load's payload.
ReturnedLoadComplete ==
    hist.result = "returned" => CompleteGraphOf(graph, hist.data)

\* a worker is free to read after a load has returned that created relationships
ReturnedLoadCompleteWitness ==
    /\ hist.result = "returned"
    /\ req["w1"].pc = "idle"
    /\ Len(graph.users) = 2
    /\ Len(graph.owns) = 2
    /\ Len(graph.has_claim) = 1

IsPrefix(s, t) == Len(s) <= Len(t) /\ \A k \in DOMAIN s : s[k] = t[k]

\* C4: at all times no two User nodes share a userId, no two Policy nodes a
\* policyId and no two Claim nodes a claimId; and a load whose users list holds a
\* userId twice does not get past its users loop: it ends raised, it never returns.
IdsStayUnique ==
    /\ Injective(graph.users, "userId")
    /\ Injective(graph.policies, "policyId")
    /\ Injective(graph.claims, "claimId")
    /\ \A w \in Workers :
         (req[w].call = "returned" \/ (req[w].call = "running" /\ req[w].pc # "users"))
            => Injective(UserNodes(hist.data), "userId")

\* a load whose users list holds one userId twice has raised, one node created
IdsStayUniqueWitness ==
    \E w \in Workers :
        /\ req[w].call = "raised"
        /\ req[w].error = "ConstraintError"
        /\ Len(hist.data.users) = 2
        /\ ~Injective(UserNodes(hist.data), "userId")
        /\ Len(graph.users) = 1

\* C5: when the detector has no session, a finished load, detect or visualization
\* request has raised no exception and carries the status of an unavailable store.
UnavailableReported ==
    \A w \in Workers :
        (req[w].pc = "done" /\ detector = "object" /\ session = "None")
            => (req[w].error = "" /\ req[w].status = 503)

\* C6: a load in which a node creation raised is over: the exception reached the
\* caller, no relationship exists, and the nodes in the graph are the nodes of the
\* records of this payload that come before the record that raised, and no others.
AbortedLoadLeaves ==
    \A w \in Workers :
        (req[w].call = "raised" /\ req[w].error = "ConstraintError") =>
            /\ req[w].pc = "done"
            /\ req[w].status = 500
            /\ hist.result = "raised"
            /\ graph.owns = <<>> /\ graph.has_claim = <<>> /\ graph.filed = <<>>
            /\ IsPrefix(graph.users, UserNodes(hist.data))
            /\ IsPrefix(graph.policies, PolicyNodes(hist.data))
            /\ IsPrefix(graph.claims, ClaimNodes(hist.data))
            /\ graph.policies # <<>> => Len(graph.users) = Len(hist.data.users)
            /\ graph.claims # <<>> => Len(graph.policies) = Len(hist.data.policies)
            /\ Len(graph.users) + Len(graph.policies) + Len(graph.claims)
                 < Len(hist.data.users) + Len(hist.data.policies) + Len(hist.data.claims)

\* a load that followed another one raised on its second claim
AbortedLoadWitness ==
    \E w \in Workers :
        /\ req[w].call = "raised"
        /\ req[w].error = "ConstraintError"
        /\ ~req[w].first
        /\ Len(graph.policies) = 2
        /\ Len(graph.claims) = 1

(***************************************************************************)
(* Detection on its own: detect_fraud_rings runs on the graph that a load  *)
(* which returned has left.  The graphs are those of payloads with unique  *)
(* ids in which a user may own several policies and file several claims.   *)
(***************************************************************************)
DetectUserLists ==
    { << [uid |-> "u1", phone |-> "555"], [uid |-> "u2", phone |-> "555"] >>,
      << [uid |-> "u1", phone |-> "555"], [uid |-> "u2"] >>,
      << [uid |-> "u1", phone |-> "555"] >> }

DetectPolicyRecs ==
    << [policyId |-> "p1", userId |-> "u1", insurance_type |-> "auto",
       policy_annual_premium |-> 100, sum_insured |-> 1000],
      [policyId |-> "p2", userId |-> "u2", insurance_type |-> "auto",
       policy_annual_premium |-> 100, sum_insured |-> 1000],
      [policyId |-> "p3", userId |-> "u1", insurance_type |-> "auto",
       policy_annual_premium |-> 100, sum_insured |-> 1000],
      [policyId |-> "p4", userId |-> "u2", insurance_type |-> "auto",
       policy_annual_premium |-> 200, sum_insured |-> 1000] >>

DetectClaimRecs ==
    << [claimId |-> "c1", policyId |-> "p1", userId |-> "u1", claimType |-> "collision",
       claimAmount |-> 600000, incidentDate |-> "2024-01-05"],
      [claimId |-> "c2", policyId |-> "p2", userId |-> "u2", claimType |-> "collision",
       claimAmount |-> 600000, incidentDate |-> "2024-01-05"],
      [claimId |-> "c3", policyId |-> "p3", userId |-> "u1", claimType |-> "theft",
       claimAmount |-> 100, incidentDate |-> "2024-02-01"],
      [claimId |-> "c4", policyId |-> "p1", userId |-> "u1", claimType |-> "theft",
       claimAmount |-> 200, incidentDate |-> "2024-03-01"],
      [claimId |-> "c5", policyId |-> "p4", userId |-> "u2", claimType |-> "collision",
       claimAmount |-> 600000, incidentDate |-> "2024-01-05"] >>

\* the non-empty lists that take records of recs in their order, none twice
Sublists(recs) ==
    {l \in ListsUpTo(recs, Len(recs)) :
        l # <<>> /\ \A j, k \in DOMAIN l : l[j] = l[k] => j = k}

DetectPayloads ==
    [users : DetectUserLists,
     policies : Sublists(DetectPolicyRecs),
     claims : Sublists(DetectClaimRecs)]

\* Payloads for the indicator analyzer and the risk scorer: three users, of whom
\* two own a policy of the same details, and claims that differ in the type of
\* their fraudScore and in what their submittedDate reads as.
ScoreUsers ==
    << [uid |-> "u1", phone |-> "555"], [uid |-> "u2", phone |-> "555"], [uid |-> "u3"] >>

ScorePolicies ==
    << [policyId |-> "p1", userId |-> "u1", insurance_type |-> "auto",
       policy_annual_premium |-> 100, sum_insured |-> 1000],
      [policyId |-> "p2", userId |-> "u2", insurance_type |-> "auto",
       policy_annual_premium |-> 100, sum_insured |-> 1000] >>

ScoreClaimRecs ==
    << [claimId |-> "s1", policyId |-> "p1", userId |-> "u1", claimAmount |-> 600000,
       fraudScore |-> Float(90), submittedDate |-> "2024-01-05"],
      [claimId |-> "s2", policyId |-> "p1", userId |-> "u1", claimAmount |-> 500000,
       fraudScore |-> Float(86), submittedDate |-> "2024-01-20"],
      [claimId |-> "s3", policyId |-> "p1", userId |-> "u1", claimAmount |-> 100,
       fraudScore |-> Float(98), submittedDate |-> "2024-03-01"],
      [claimId |-> "s4", policyId |-> "p2", userId |-> "u2", claimAmount |-> 600000,
       fraudScore |-> Integer(1), submittedDate |-> "01/05/2024"],
      [claimId |-> "s5", policyId |-> "p2", userId |-> "u2", claimAmount |-> 300000],
      [claimId |-> "s6", policyId |-> "p2", userId |-> "u2", claimAmount |-> 50,
       fraudScore |-> Float(80), submittedDate |-> "05-01-2024"],
      [claimId |-> "s7", userId |-> "u3", claimAmount |-> 700000,
       fraudScore |-> Null, submittedDate |-> "01/05/2024"],
      [claimId |-> "s8", userId |-> "u3", claimAmount |-> 400000,
       fraudScore |-> Float(75)] >>

\* six claims of one user: 1,200,000 in all, every fraudScore 0.5
SixClaims ==
    LET ids == <<"t1", "t2", "t3", "t4", "t5", "t6">>
    IN [k \in DOMAIN ids |->
          [claimId |-> ids[k], policyId |-> "p1", userId |-> "u1",
           claimAmount |-> 200000, fraudScore |-> Float(50)]]

\* the records of recs at the positions in S, in the order of recs
Picked(recs, S) ==
    LET at == SelectSeq([k \in DOMAIN recs |-> k], LAMBDA k : k \in S)
    IN [j \in DOMAIN at |-> recs[at[j]]]

ScorePayloads ==
    [users : {ScoreUsers},
     policies : {ScorePolicies},
     claims : {Picked(ScoreClaimRecs, S) : S \in (SUBSET DOMAIN ScoreClaimRecs) \ {{}}}
                \cup {SixClaims}]

\* Payloads with claims whose policyId is the id of no policy: such a claim is
\* FILED by its user and is the claim of no policy.
OrphanClaimRecs ==
    << [claimId |-> "o1", policyId |-> "p1", userId |-> "u1", claimType |-> "collision",
       claimAmount |-> 600000, incidentDate |-> "2024-01-05", fraudScore |-> Float(90)],
      [claimId |-> "o2", policyId |-> "p2", userId |-> "u2", claimType |-> "collision",
       claimAmount |-> 600000, incidentDate |-> "2024-01-05", fraudScore |-> Float(10)],
      [claimId |-> "o3", policyId |-> "p9", userId |-> "u1", claimType |-> "collision",
       claimAmount |-> 600000, incidentDate |-> "2024-01-05", fraudScore |-> Float(80)],
      [claimId |-> "o4", policyId |-> "p9", userId |-> "u3", claimType |-> "collision",
       claimAmount |-> 600000, incidentDate |-> "2024-01-05", fraudScore |-> Float(80)] >>

OrphanPayloads ==
    [users : {ScoreUsers},
     policies : {ScorePolicies},
     claims : {Picked(OrphanClaimRecs, S) : S \in (SUBSET DOMAIN OrphanClaimRecs) \ {{}}}]

\* the handler of a detect request has come back from load_data_from_firestore
DetectInit ==
    /\ serving = TRUE
    /\ detector = "object"
    /\ session = "open"
    /\ constraints = AllConstraints
    /\ \E data \in DetectPayloads \cup ScorePayloads \cup OrphanPayloads :
         /\ graph = Loaded(data)
         /\ hist = [data |-> data, result |-> "returned"]
         /\ req = [w \in Workers |->
                     IF w \in SerialWorkers
                     THEN [Idle EXCEPT !.route = "detect", !.pc = "phone", !.i = 1,
                                       !.data = data, !.call = "returned", !.first = TRUE]
                     ELSE Idle]

DetectNext ==
    \E w \in SerialWorkers :
        \/ DetectPhone(w)
        \/ DetectPolicy(w)
        \/ DetectClaim(w)
        \/ AnalyzeHighFraud(w)
        \/ AnalyzeRapid(w)
        \/ AnalyzeFallback(w)
        \/ CalculateRiskScores(w)

DetectSpec == DetectInit /\ [][DetectNext]_vars

\* in the program, the graph of a load that returned is the graph Loaded tells
LoadedAsLoaded ==
    \A w \in Workers : req[w].call = "returned" => graph = Loaded(hist.data)

\* the pairs of User nodes that the claim is about: different users with one
\* non-empty phone number, each owning a policy that has a claim
SharePhone(g, a, b) ==
    /\ g.users[a].userId # g.users[b].userId
    /\ g.users[a].phone = g.users[b].phone
    /\ g.users[a].phone # ""
    /\ \A u \in {a, b} :
         \E p \in DOMAIN g.policies, c \in DOMAIN g.claims : Owns(g, u, p) /\ HasClaim(g, p, c)

\* different users who own policies with the same insurance type, premium (> 0)
\* and sum insured, each policy with a claim
SharePolicyDetails(g, a, b) ==
    /\ g.users[a].userId # g.users[b].userId
    /\ \E p, q \in DOMAIN g.policies :
         /\ Owns(g, a, p) /\ Owns(g, b, q)
         /\ g.policies[p].insurance_type = g.policies[q].insurance_type
         /\ g.policies[p].policy_annual_premium = g.policies[q].policy_annual_premium
         /\ g.policies[p].sum_insured = g.policies[q].sum_insured
         /\ g.policies[p].policy_annual_premium > 0
         /\ \E c, d \in DOMAIN g.claims : HasClaim(g, p, c) /\ HasClaim(g, q, d)

\* different users who filed claims with the same type, amount (> 0) and incident
\* date under policies of one insurance type
FiledIdenticalClaims(g, a, b) ==
    /\ g.users[a].userId # g.users[b].userId
    /\ \E c, d \in DOMAIN g.claims, p, q \in DOMAIN g.policies :
         /\ Filed(g, a, c) /\ Filed(g, b, d)
         /\ g.claims[c].claimType = g.claims[d].claimType
         /\ g.claims[c].claimAmount = g.claims[d].claimAmount
         /\ g.claims[c].incidentDate = g.claims[d].incidentDate
         /\ g.claims[c].claimAmount > 0
         /\ HasClaim(g, p, c) /\ HasClaim(g, q, d)
         /\ g.policies[p].insurance_type = g.policies[q].insurance_type

PairOf(g, a, b) == {g.users[a].userId, g.users[b].userId}

\* the networks of a list that are about one pair of users
NetworksFor(networks, pair) == {k \in DOMAIN networks : UserKey(networks[k]) = pair}

\* C7: when detection has answered, for every two users with one non-empty phone
\* number who each own a policy with a claim, the answer holds exactly one network
\* for the two, and it is a phone network, also when another detector found them.
OnePhoneNetworkPerPair ==
    \A w \in Workers : DetectDone(w) =>
        \A a, b \in DOMAIN graph.users : SharePhone(graph, a, b) =>
            /\ Cardinality(NetworksFor(req[w].networks, PairOf(graph, a, b))) = 1
            /\ \A k \in NetworksFor(req[w].networks, PairOf(graph, a, b)) :
                 req[w].networks[k].type = "phone_network"

\* two users share a phone, and the policy and the claim detector found them too
OnePhoneNetworkWitness ==
    \E w \in Workers :
        /\ DetectDone(w)
        /\ \E a, b \in DOMAIN graph.users :
             /\ SharePhone(graph, a, b)
             /\ \E k \in NetworksFor(req[w].found, PairOf(graph, a, b)) :
                  req[w].found[k].type = "policy_network"
             /\ \E k \in NetworksFor(req[w].found, PairOf(graph, a, b)) :
                  req[w].found[k].type = "claim_network"

\* C8, as claimed: when detection has answered, for every two users who filed
\* identical claims under policies of one insurance type, the answer holds a
\* network for the two whose risk score is 0.9.
IdenticalClaimsScored ==
    \A w \in Workers : DetectDone(w) =>
        \A a, b \in DOMAIN graph.users : FiledIdenticalClaims(graph, a, b) =>
            \E k \in NetworksFor(req[w].networks, PairOf(graph, a, b)) :
                req[w].networks[k].risk_score = D(9)

\* C8, amended: the claim detector finds a network with risk score 0.9 for the two,
\* and the answer holds exactly one network for them: the phone network if they
\* share a phone, else the policy network if they share policy details, else the
\* claim network with its risk score of 0.9.
IdenticalClaimsSurface ==
    \A w \in Workers : DetectDone(w) =>
        \A a, b \in DOMAIN graph.users : FiledIdenticalClaims(graph, a, b) =>
            LET pair == PairOf(graph, a, b)
                kept == NetworksFor(req[w].networks, pair)
            IN /\ \E k \in NetworksFor(req[w].found, pair) :
                     /\ req[w].found[k].type = "claim_network"
                     /\ req[w].found[k].risk_score = D(9)
               /\ Cardinality(kept) = 1
               /\ \A k \in kept :
                     req[w].networks[k].type =
                        IF SharePhone(graph, a, b) THEN "phone_network"
                        ELSE IF SharePolicyDetails(graph, a, b) THEN "policy_network"
                        ELSE "claim_network"
               /\ \A k \in kept :
                     req[w].networks[k].type = "claim_network"
                        => req[w].networks[k].risk_score = D(9)

\* identical claims of two users whom no other detector finds
IdenticalClaimsWitness ==
    \E w \in Workers :
        /\ DetectDone(w)
        /\ \E a, b \in DOMAIN graph.users :
             /\ FiledIdenticalClaims(graph, a, b)
             /\ ~SharePhone(graph, a, b)
             /\ ~SharePolicyDetails(graph, a, b)
             /\ \E k \in DOMAIN req[w].networks :
                  /\ req[w].networks[k].type = "claim_network"
                  /\ req[w].networks[k].risk_score = D(9)

DetectorRank(type) ==
    IF type = "phone_network" THEN 1 ELSE IF type = "policy_network" THEN 2 ELSE 3

\* C9: the detector outputs are concatenated phone, then policy, then claim; the
\* answer holds, for each pair of users in the concatenation, the first network of
\* that pair and no other, so no two of its networks are about one pair, and a pair
\* that the phone and the policy detector both found is there as a phone network.
FirstNetworkPerPairKept ==
    \A w \in Workers : DetectDone(w) =>
        LET found == req[w].found
            kept == req[w].networks
        IN /\ \A j, k \in DOMAIN found :
                j < k => DetectorRank(found[j].type) <= DetectorRank(found[k].type)
           /\ \A j, k \in DOMAIN kept : UserKey(kept[j]) = UserKey(kept[k]) => j = k
           /\ \A k \in DOMAIN found :
                LET first == CHOOSE j \in NetworksFor(found, UserKey(found[k])) :
                                 \A i \in NetworksFor(found, UserKey(found[k])) : j <= i
                IN \E j \in DOMAIN kept : kept[j] = found[first]
           /\ \A j \in DOMAIN kept :
                \E k \in DOMAIN found :
                    /\ kept[j] = found[k]
                    /\ \A i \in NetworksFor(found, UserKey(found[k])) : k <= i
           /\ \A k \in DOMAIN found :
                (/\ found[k].type = "policy_network"
                 /\ \E i \in NetworksFor(found, UserKey(found[k])) : found[i].type = "phone_network")
                    => \A j \in NetworksFor(kept, UserKey(found[k])) :
                          kept[j].type = "phone_network"

\* a pair found by the phone and by the policy detector, several rows each
FirstNetworkWitness ==
    \E w \in Workers :
        /\ DetectDone(w)
        /\ Len(req[w].networks) = 1
        /\ Len(req[w].found) >= 4
        /\ \E j, k \in DOMAIN req[w].found :
             /\ req[w].found[j].type = "phone_network"
             /\ req[w].found[k].type = "policy_network"
             /\ UserKey(req[w].found[j]) = UserKey(req[w].found[k])

\* _detect_suspicious_networks for given orders of the rows of the three queries
SuspiciousNetworks(g, phoneOrder, policyOrder, claimOrder) ==
    RemoveDuplicateNetworks(PhoneNetworks(g, phoneOrder)
                            \o PolicyNetworks(g, policyOrder)
                            \o ClaimNetworks(g, claimOrder))

\* what a network says when the order of its two users is left aside
Unoriented(network) ==
    [type |-> network.type,
     users |-> UserKey(network),
     shared_attribute |-> network.shared_attribute,
     risk_score |-> network.risk_score]

\* C10: when detection has answered, the networks of the answer, taken as a set and
\* each without regard to the order of its two users, are those that result for the
\* graph under every other order of the rows of the three queries.
AggregationOrderFree ==
    \A w \in Workers : DetectDone(w) =>
        \A phoneOrder \in Orderings(PhoneBindings(graph)),
           policyOrder \in Orderings(PolicyBindings(graph)),
           claimOrder \in Orderings(ClaimBindings(graph)) :
            {Unoriented(n) : n \in Range(req[w].networks)}
                = {Unoriented(n) : n \in
                     Range(SuspiciousNetworks(graph, phoneOrder, policyOrder, claimOrder))}

(***************************************************************************)
(* The risk scorer.                                                        *)
(***************************************************************************)
\* the quotient q, whose denominator is a multiple of 100, is h / 100
IsHundredths(q, h) == q.num = h * (q.den \div 100)

\* the entries of risk_scores in the response to w: a user with six filed claims
\* that total 1,200,000 and have an average fraudScore of 0.5
SixClaimUsers(w) ==
    {user \in DOMAIN req[w].risk_scores :
        LET score == req[w].risk_scores[user]
        IN /\ score.claim_count = 6
           /\ score.total_amount = 1200000
           /\ IsHundredths(score.avg_fraud_score, 50)}

\* C11 as stated: a user with 6 filed claims totalling 1,200,000 and an average
\* fraudScore of 0.5 gets overall_risk = 0.85 from the risk scorer
SixClaimsScoreEightyFive ==
    \A w \in Workers :
        DetectDone(w) =>
            \A user \in SixClaimUsers(w) :
                IsHundredths(req[w].risk_scores[user].overall_risk, 85)

\* C11, amended: a user with 6 filed claims totalling 1,200,000 and an average
\* fraudScore of 0.5 gets overall_risk = 0.3 * 0.6 + 0.5 * 0.5 + 0.2 * 1 = 0.63
SixClaimsScoreSixtyThree ==
    \A w \in Workers :
        DetectDone(w) =>
            \A user \in SixClaimUsers(w) :
                IsHundredths(req[w].risk_scores[user].overall_risk, 63)

SixClaimsWitness ==
    \E w \in Workers : DetectDone(w) /\ SixClaimUsers(w) # {}

\* the User nodes with at least one FILED claim
Filers(g) == {u \in DOMAIN g.users : \E c \in DOMAIN g.claims : Filed(g, u, c)}

\* the sum of the fraudScores of claims, in hundredths; none if one is null
RECURSIVE FraudScoreSum(_)
FraudScoreSum(claims) ==
    IF claims = <<>> THEN [null |-> FALSE, h |-> 0]
    ELSE LET rest == FraudScoreSum(Tail(claims))
         IN [null |-> rest.null \/ Head(claims).fraudScore.type = "null",
             h |-> rest.h + Head(claims).fraudScore.h]

\* 0.3 * min(claimCount / 10, 1) + 0.5 * (average fraudScore, 0 if null)
\* + 0.2 * min(totalClaimAmount / 1,000,000, 1) for the User node u, over the
\* denominator 10^7 * claimCount
FormulaRisk(g, u) ==
    LET claims == ClaimsFiled(g, u)
        n == Len(claims)
        sum == FraudScoreSum(claims)
    IN [num |-> 3 * Min(n, 10) * 100000 * n
                  + (IF sum.null THEN 0 ELSE sum.h) * 50000
                  + 2 * Min(ReduceAmount(0, claims), Million) * n,
        den |-> 10000000 * n]

\* C12: the risk scorer returns an entry for exactly the users with at least
\* one FILED claim, and the overall_risk of each is 0.3 * min(claimCount / 10, 1)
\* + 0.5 * (average fraudScore, 0 if null) + 0.2 * min(total / 1,000,000, 1)
RiskScoresByFormula ==
    \A w \in Workers :
        DetectDone(w) =>
            /\ DOMAIN req[w].risk_scores = {graph.users[u].userId : u \in Filers(graph)}
            /\ \A u \in Filers(graph) :
                  req[w].risk_scores[graph.users[u].userId].overall_risk
                      = FormulaRisk(graph, u)

(***************************************************************************)
(* The rapid claim filers.                                                 *)
(***************************************************************************)
\* no claim of the graph has a submittedDate that reads as a date
NoDateReadable(g) ==
    \A c \in DOMAIN g.claims :
        g.claims[c].submittedDate = "" \/ ~DateTexts[g.claims[c].submittedDate].valid

UserIds(entries) == {entries[k].userId : k \in DOMAIN entries}

\* the handler of a detect request has answered, with the results or an error
DetectAnswered(w) == req[w].pc = "done" /\ req[w].route = "detect"

\* C13: when no claim's date can be parsed and at least two users have two or
\* more filed claims each, rapid_claim_filers holds those users, at most 10 of
\* them by descending claim count; the list is that of the date-windowed query
\* or that of the fallback, never both
FallbackReturnsRepeatFilers ==
    \A w \in Workers :
        (/\ DetectAnswered(w)
         /\ NoDateReadable(graph)
         /\ Cardinality(RepeatUsers(graph)) >= 2) =>
            LET filers == req[w].indicators.rapid_claim_filers
            IN /\ req[w].status = 200
               /\ Len(filers) = Min(Cardinality(RepeatUsers(graph)), FallbackLimit)
               /\ UserIds(filers) \subseteq {graph.users[u].userId : u \in RepeatUsers(graph)}
               /\ ByClaimCount(filers)
               /\ RapidUsers(graph) = {}

\* the graph g had every claim been submitted on one readable date: its users
\* with two or more claims are filers of the date-windowed query
Redated(g) ==
    [g EXCEPT !.claims = [c \in DOMAIN g.claims |->
                            [g.claims[c] EXCEPT !.submittedDate = "2024-01-05"]]]

\* the rapid_claim_filers of the response to w came from the fallback query
FromFallback(w) ==
    /\ DetectDone(w)
    /\ RapidUsers(graph) = {}
    /\ req[w].indicators.rapid_claim_filers # <<>>

\* C14: fallback results are labeled differently from date-windowed results
\* in the detect output, so a consumer can tell them apart: no list that the
\* fallback returned is also a list that the date-windowed query returns
FallbackToldApart ==
    \A w \in Workers :
        FromFallback(w) =>
            \A order \in Orderings(RapidUsers(Redated(graph))) :
                \/ RapidClaimFilers(Redated(graph), order)
                      # req[w].indicators.rapid_claim_filers
                \/ GenerateRecommendations(
                       [Results(req[w], req[w].risk_scores) EXCEPT
                          !.fraud_indicators.rapid_claim_filers =
                              RapidClaimFilers(Redated(graph), order)])
                      # req[w].recommendations

(***************************************************************************)
(* The visualization.                                                      *)
(***************************************************************************)
\* C15: for every loaded graph get_network_visualization_data returns normally,
\* with one node entry per (user, claim) pair whose claim has fraudScore > 0.5
\* and with empty edges; it succeeds when such a claim exists
VisualizationReturns ==
    \A w \in Workers :
        (/\ req[w].pc = "done"
         /\ req[w].route = "visualization"
         /\ detector = "object"
         /\ session = "open") =>
            /\ req[w].status = 200
            /\ Len(req[w].visualization.nodes) = Cardinality(VisualizationBindings(graph))
            /\ req[w].visualization.edges = <<>>

(***************************************************************************)
(* The recommendations.                                                    *)
(***************************************************************************)
NetworkMessage == "suspicious networks detected - investigate immediately"
HighRiskMessage == "high-risk users identified - manual review required"
RapidMessage == "users filing claims rapidly - investigate patterns"

\* the place of a message in the fixed order
MessageRank(message) ==
    CASE message = NetworkMessage -> 1
      [] message = HighRiskMessage -> 2
      [] message = RapidMessage -> 3
      [] OTHER -> 0

\* the users of the response to w whose overall_risk is strictly above 0.7
AboveSevenTenths(w) ==
    {user \in DOMAIN req[w].risk_scores :
        LET risk == req[w].risk_scores[user].overall_risk
        IN risk.num * 10 > 7 * risk.den}

\* the messages of the response to w with this wording
Messages(w, message) ==
    {k \in DOMAIN req[w].recommendations : req[w].recommendations[k].message = message}

\* message is in the response to w once with this count if the count is not 0,
\* and not at all if it is
Emitted(w, message, count) ==
    IF count = 0 THEN Messages(w, message) = {}
    ELSE /\ Cardinality(Messages(w, message)) = 1
         /\ \A k \in Messages(w, message) : req[w].recommendations[k].count = count

\* C16: the recommendations are a function of the results: at most three
\* messages in the order network, high-risk, rapid-filer; the network message iff
\* the deduplicated network list is non-empty, the high-risk message iff some
\* user has overall_risk strictly above 0.7, the rapid-filer message iff
\* rapid_claim_filers is non-empty, each with its count; nothing else
RecommendationsOfResults ==
    \A w \in Workers :
        DetectDone(w) =>
            LET recommendations == req[w].recommendations
            IN /\ Len(recommendations) <= 3
               /\ \A k \in DOMAIN recommendations :
                     MessageRank(recommendations[k].message) # 0
               /\ \A j, k \in DOMAIN recommendations :
                     j < k => MessageRank(recommendations[j].message)
                                < MessageRank(recommendations[k].message)
               /\ Emitted(w, NetworkMessage, Len(req[w].networks))
               /\ Emitted(w, HighRiskMessage, Cardinality(AboveSevenTenths(w)))
               /\ Emitted(w, RapidMessage, Len(req[w].indicators.rapid_claim_filers))

\* all three messages, with a user who is counted and one who is not
RecommendationsWitness ==
    \E w \in Workers :
        /\ DetectDone(w)
        /\ Len(req[w].recommendations) = 3
        /\ AboveSevenTenths(w) \notin {{}, DOMAIN req[w].risk_scores}

(***************************************************************************)
(* A query that fails.                                                     *)
(***************************************************************************)
\* C17: the failure of one detector or analyzer query does not keep the others
\* from running: when the rapid filer query has failed, the answer still holds
\* the networks the detectors found, the high fraud score users and the risk
\* scores of every user with a filed claim
OtherResultsSurvive ==
    \A w \in Workers :
        (DetectAnswered(w) /\ RapidRaises(graph)) =>
            /\ req[w].status = 200
            /\ req[w].networks = RemoveDuplicateNetworks(req[w].found)
            /\ Len(req[w].indicators.high_fraud_score_users)
                  = Min(Cardinality(HighFraudUsers(graph)), HighFraudLimit)
            /\ DOMAIN req[w].risk_scores = {graph.users[u].userId : u \in Filers(graph)}

(***************************************************************************)
(* Requests at the same time.  The server of app.run handles each request  *)
(* in a thread of its own; the handlers share the module's detector and    *)
(* the store behind it, and take no lock.  Two workers send one detect     *)
(* request each, about two users who have nothing in common.               *)
(***************************************************************************)
ConcurrentPayload(w) ==
    IF w \in SerialWorkers
    THEN [users |-> <<UserRecs[1]>>, policies |-> <<PolicyRecs[1]>>,
          claims |-> <<ClaimRecs[1]>>]
    ELSE [users |-> <<UserRecs[3]>>,
          policies |-> << [policyId |-> "p2", userId |-> "u2", insurance_type |-> "home",
                          policy_annual_premium |-> 200, sum_insured |-> 5000] >>,
          claims |-> << [claimId |-> "c2", policyId |-> "p2", userId |-> "u2",
                        claimType |-> "theft", claimAmount |-> 100,
                        incidentDate |-> "2024-02-01"] >>]

\* the server is up and the detector connected
ConcurrentInit ==
    /\ serving = TRUE
    /\ detector = "object"
    /\ session = "open"
    /\ constraints = AllConstraints
    /\ graph = EmptyGraph
    /\ req = [w \in Workers |-> Idle]
    /\ hist = NoCall

ConcurrentRequest(w) == Requested(w, {ConcurrentPayload(w)})

ConcurrentNext ==
    \E w \in Workers :
        \/ ConcurrentRequest(w)
        \/ CreateUser(w)
        \/ CreatePolicy(w)
        \/ CreateClaim(w)
        \/ CreateOwns(w)
        \/ CreateHasClaim(w)
        \/ CreateFiled(w)
        \/ DetectPhone(w)
        \/ DetectPolicy(w)
        \/ DetectClaim(w)
        \/ AnalyzeHighFraud(w)
        \/ AnalyzeRapid(w)
        \/ AnalyzeFallback(w)
        \/ CalculateRiskScores(w)

ConcurrentSpec == ConcurrentInit /\ [][ConcurrentNext]_vars

\* the user a worker's request is about
OwnUser(w) == UserNode(ConcurrentPayload(w).users[1]).userId

\* the risk scores of a detection on the complete graph of the worker's payload
OwnRiskScores(w) ==
    LET g == Loaded(ConcurrentPayload(w))
    IN RiskScores(g, <<1>>, 1)

ClaimsOfPolicy(g, policyId) ==
    ClaimsOf(g, CHOOSE p \in DOMAIN g.policies : g.policies[p].policyId = policyId)

\* the shared formula on the claim counts and the claim totals of the two
\* policies of a policy network
ScoreByCountAndTotal(g, network) ==
    NetworkRiskScore(
        [claims_count1 |-> network.details.claims_count1,
         claims_count2 |-> network.details.claims_count2,
         total_amount1 |-> TotalAmount(g, ClaimsOfPolicy(g, network.details.policy1)),
         total_amount2 |-> TotalAmount(g, ClaimsOfPolicy(g, network.details.policy2))])

\* C19: the risk score of each policy network is the shared formula applied to
\* its combined claim count and its combined claim total, as for phone networks
PolicyNetworkScoredByTotal ==
    \A w \in Workers :
        DetectDone(w) =>
            \A k \in DOMAIN req[w].found :
                req[w].found[k].type = "policy_network" =>
                    req[w].found[k].risk_score = ScoreByCountAndTotal(graph, req[w].found[k])

(***************************************************************************)
(* The high fraud score users.                                             *)
(***************************************************************************)
\* the User node with this userId, ids being unique
UserOf(g, userId) == CHOOSE u \in DOMAIN g.users : g.users[u].userId = userId

\* C20: for each user in high_fraud_score_users, avg_fraud_score, claim_count
\* and total_amount are computed across all claims the user filed; the list
\* holds only users with a claim of fraudScore > 0.7, at most 20 of them, in
\* descending order of that average
HighFraudOverAllClaims ==
    \A w \in Workers :
        DetectDone(w) =>
            LET entries == req[w].indicators.high_fraud_score_users
            IN /\ Len(entries) <= HighFraudLimit
               /\ ByAverage(entries)
               /\ \A k \in DOMAIN entries :
                     LET claims == ClaimsFiled(graph, UserOf(graph, entries[k].userId))
                         sum == FraudScoreSum(claims)
                     IN /\ \E j \in DOMAIN claims : GreaterThan(claims[j].fraudScore, 70)
                        /\ entries[k].claim_count = Len(claims)
                        /\ entries[k].total_amount = ReduceAmount(0, claims)
                        /\ ~sum.null
                        /\ entries[k].avg_fraud_score.num * 100 * Len(claims)
                              = sum.h * entries[k].avg_fraud_score.den

(***************************************************************************)
(* The loader on records that name their user in other ways, and on claims *)
(* whose fraudScore the scoring component got wrong.  The server is up and *)
(* connected, and detect requests come one after the other.                *)
(***************************************************************************)
IdUserRecs ==
    << [id |-> "a1", uid |-> "u1", phone |-> "555"],
       [id |-> "u2", phone |-> "555"],
       [phone |-> "555"] >>

IdPolicyRecs ==
    << [policyId |-> "p1", userId |-> "u1", insurance_type |-> "auto",
       policy_annual_premium |-> 100, sum_insured |-> 1000] >>

IdClaimRecs ==
    << [claimId |-> "k1", policyId |-> "p1", userId |-> "u1", claimType |-> "collision",
       claimAmount |-> 600000, incidentDate |-> "2024-01-05", fraudScore |-> Float(150)],
      [claimId |-> "k2", policyId |-> "p1", userId |-> "a1", claimType |-> "collision",
       claimAmount |-> 100, incidentDate |-> "2024-01-05", fraudScore |-> Float(40)] >>

NonEmptyPicks(recs) == {Picked(recs, S) : S \in (SUBSET DOMAIN recs) \ {{}}}

LoadPayloads ==
    [users : NonEmptyPicks(IdUserRecs),
     policies : NonEmptyPicks(IdPolicyRecs),
     claims : NonEmptyPicks(IdClaimRecs)]

LoadInit ==
    /\ serving = TRUE
    /\ detector = "object"
    /\ session = "open"
    /\ constraints = AllConstraints
    /\ graph = EmptyGraph
    /\ req = [w \in Workers |-> Idle]
    /\ hist = NoCall

LoadRequest(w) == Requested(w, LoadPayloads)

LoadNext ==
    \E w \in SerialWorkers :
        \/ LoadRequest(w)
        \/ CreateUser(w)
        \/ CreatePolicy(w)
        \/ CreateClaim(w)
        \/ CreateOwns(w)
        \/ CreateHasClaim(w)
        \/ CreateFiled(w)
        \/ DetectPhone(w)
        \/ DetectPolicy(w)
        \/ DetectClaim(w)
        \/ AnalyzeHighFraud(w)
        \/ AnalyzeRapid(w)
        \/ AnalyzeFallback(w)
        \/ CalculateRiskScores(w)
        \/ Sent(w)

LoadSpec == LoadInit /\ [][LoadNext]_vars

\* the load of a request is under way or has returned
Loading(w) == req[w].call \in {"running", "returned"}

\* C21 as stated: the userId of a User node is the record's id if it has one,
\* else its uid, else the empty string; a record with both is stored under its id
UserIdFromIdFirst ==
    \A w \in Workers :
        Loading(w) =>
            \A k \in DOMAIN graph.users :
                LET user == hist.data.users[k]
                IN graph.users[k].userId =
                      IF "id" \in DOMAIN user THEN user.id
                      ELSE IF "uid" \in DOMAIN user THEN user.uid
                      ELSE ""

\* C21, amended: the userId of a User node is the record's uid if it has one,
\* else its id, else the empty string; a record with both is stored under its uid
UserIdFromUidFirst ==
    \A w \in Workers :
        Loading(w) =>
            \A k \in DOMAIN graph.users :
                LET user == hist.data.users[k]
                IN graph.users[k].userId =
                      IF "uid" \in DOMAIN user THEN user.uid
                      ELSE IF "id" \in DOMAIN user THEN user.id
                      ELSE ""

\* a load has returned that stored a record with both fields, one with id alone
\* and one with neither
UserIdWitness ==
    \E w \in Workers :
        /\ req[w].call = "returned"
        /\ Len(graph.users) = 3
        /\ \E k \in DOMAIN graph.users :
             /\ {"id", "uid"} \subseteq DOMAIN hist.data.users[k]
             /\ hist.data.users[k].id # hist.data.users[k].uid
             /\ graph.users[k].userId = hist.data.users[k].uid
        /\ \E k \in DOMAIN graph.users : graph.users[k].userId = ""

\* C22: after any successful load every Claim node's fraudScore is a number in
\* [0,1], and is 0 when the record had none
FraudScoreInUnitRange ==
    \A w \in Workers :
        req[w].call = "returned" =>
            \A k \in DOMAIN graph.claims :
                /\ graph.claims[k].fraudScore.type \in {"int", "float"}
                /\ graph.claims[k].fraudScore.h >= 0
                /\ graph.claims[k].fraudScore.h <= 100
                /\ "fraudScore" \notin DOMAIN hist.data.claims[k]
                      => graph.claims[k].fraudScore = Integer(0)

(***************************************************************************)
(* The risk-score formula on its own: the loops of the phone and of the    *)
(* policy detector on rows of any claim counts and claim totals.  A user   *)
(* of a row has at least one claim.                                        *)
(***************************************************************************)
MaxRows == 2

RowCounts == {1, 3}
RowTotals == {0, 500000, 500001}

PhoneRows ==
    [user1 : {"u1"}, user2 : {"u2"}, phone : {"555"},
     claims_count1 : RowCounts, claims_count2 : RowCounts,
     total_amount1 : RowTotals, total_amount2 : RowTotals]

PolicyRows ==
    [user1 : {"u1"}, user2 : {"u2"}, policy1 : {"p1"}, policy2 : {"p2"},
     insurance_type : {"auto"}, premium : {100}, sum_insured : {1000},
     claims_count1 : RowCounts, claims_count2 : RowCounts]

RowInit ==
    /\ serving = TRUE
    /\ detector = "object"
    /\ session = "open"
    /\ constraints = AllConstraints
    /\ graph = EmptyGraph
    /\ hist = NoCall
    /\ req = [w \in Workers |->
                IF w \in SerialWorkers
                THEN [Idle EXCEPT !.route = "detect", !.pc = "rows"]
                ELSE Idle]

\* one iteration of the loop of _detect_phone_networks
ScorePhoneRow(w) ==
    /\ req[w].pc = "rows"
    /\ Len(req[w].found) < MaxRows
    /\ \E record \in PhoneRows :
         req' = [req EXCEPT ![w].found = Append(@, PhoneNetwork(record))]
    /\ UNCHANGED <<serving, detector, session, constraints, graph, hist>>

\* one iteration of the loop of _detect_policy_networks
ScorePolicyRow(w) ==
    /\ req[w].pc = "rows"
    /\ Len(req[w].found) < MaxRows
    /\ \E record \in PolicyRows :
         req' = [req EXCEPT ![w].found = Append(@, PolicyNetwork(record))]
    /\ UNCHANGED <<serving, detector, session, constraints, graph, hist>>

RowNext ==
    \E w \in SerialWorkers :
        \/ ScorePhoneRow(w)
        \/ ScorePolicyRow(w)

RowSpec == RowInit /\ [][RowNext]_vars

\* the combined claim count and the combined claim total that the formula gets
\* of the row a network was made of; a policy row carries no totals
CombinedCount(network) ==
    Get(network.details, "claims_count1", 0) + Get(network.details, "claims_count2", 0)

CombinedTotal(network) ==
    Get(network.details, "total_amount1", 0) + Get(network.details, "total_amount2", 0)

\* the networks the formula scored
Scored(w) ==
    {k \in DOMAIN req[w].found :
        req[w].found[k].type \in {"phone_network", "policy_network"}}

\* C23: for every combined claim count and combined claim total, the score the
\* shared formula returns for a phone or policy network is strictly less than
\* 0.9, the fixed score of a claim network
FormulaBelowClaimScore ==
    \A w \in Workers :
        \A k \in Scored(w) :
            req[w].found[k].risk_score < ClaimNetwork(
                [user1 |-> "u1", user2 |-> "u2", claim1 |-> "c1", claim2 |-> "c2",
                 claim_type |-> "collision", claim_amount |-> 1,
                 incident_date |-> "2024-01-05", insurance_type |-> "auto"]).risk_score

\* a network of more than 5 claims that total more than 1,000,000
TopScoreWitness ==
    \E w \in Workers :
        \E k \in Scored(w) :
            /\ CombinedCount(req[w].found[k]) > 5
            /\ CombinedTotal(req[w].found[k]) > Million
            /\ req[w].found[k].risk_score = D(9) - 1

\* the parts of the formula, in tenths
CountTenths(n) == IF n > 5 THEN 3 ELSE IF n > 2 THEN 2 ELSE 0

TotalTenths(t) == IF t > Million THEN 3 ELSE IF t > HalfMillion THEN 2 ELSE 0

\* monotone non-decreasing in the combined claim count and the combined total
FormulaMonotone(w) ==
    \A j, k \in Scored(w) :
        (/\ CombinedCount(req[w].found[j]) <= CombinedCount(req[w].found[k])
         /\ CombinedTotal(req[w].found[j]) <= CombinedTotal(req[w].found[k]))
            => req[w].found[j].risk_score <= req[w].found[k].risk_score

\* C24 as stated: the formula returns 0.3, plus 0.3 if the combined claim count
\* is > 5 or else 0.2 if it is > 2, plus 0.3 if the combined claim total is
\* > 1,000,000 or else 0.2 if it is > 500,000, clamped to [0,1], and is monotone
FormulaIsDecimalSum ==
    \A w \in Workers :
        /\ \A k \in Scored(w) :
              req[w].found[k].risk_score =
                 D(Min(3 + CountTenths(CombinedCount(req[w].found[k]))
                         + TotalTenths(CombinedTotal(req[w].found[k])), 10))
        /\ FormulaMonotone(w)

\* C24, amended: the formula returns the sum of these three parts as formed in
\* double arithmetic: 0.8999999999999999, the double just below 0.9, when the
\* count is > 5 and the total > 1,000,000, and otherwise the double of the
\* decimal sum (0.3, 0.5, 0.6, 0.7 or 0.8); it is monotone non-decreasing in both
FormulaIsDoubleSum ==
    \A w \in Workers :
        /\ \A k \in Scored(w) :
              LET count == CountTenths(CombinedCount(req[w].found[k]))
                  total == TotalTenths(CombinedTotal(req[w].found[k]))
              IN req[w].found[k].risk_score =
                    IF count = 3 /\ total = 3 THEN D(9) - 1 ELSE D(3 + count + total)
        /\ FormulaMonotone(w)

\* two rows scored, one above the other in count and total and in its score,
\* the higher one at the top of the formula
FormulaWitness ==
    \E w \in Workers :
        \E j, k \in Scored(w) :
            /\ CombinedCount(req[w].found[j]) < CombinedCount(req[w].found[k])
            /\ CombinedTotal(req[w].found[j]) < CombinedTotal(req[w].found[k])
            /\ CombinedTotal(req[w].found[j]) = HalfMillion
            /\ req[w].found[j].risk_score = D(5)
            /\ req[w].found[k].risk_score = D(9) - 1

(***************************************************************************)
(* The order of a load.                                                    *)
(***************************************************************************)
\* a load is under way: its wipe is done and it has not returned or raised
LoadRunning == \E w \in Workers : req[w].call = "running"

\* the nodes of a label are all there: one per record of the load's payload
AllCreated(label) == Len(graph[label]) = Len(hist.data[label])

\* C25: within one load, every User node is created before any Policy node,
\* every Policy node before any Claim node, and every OWNS, HAS_CLAIM and FILED
\* relationship only after all nodes of all three kinds; the wipe precedes all
\* of them: the step that starts a load leaves the store empty, and nodes and
\* relationships are created only while a load is under way
LoadInOrder ==
    [][/\ (~LoadRunning /\ LoadRunning') => graph' = EmptyGraph
       /\ Len(graph'.users) > Len(graph.users) =>
            /\ LoadRunning
            /\ graph.policies = <<>> /\ graph.claims = <<>>
            /\ graph.owns = <<>> /\ graph.has_claim = <<>> /\ graph.filed = <<>>
       /\ Len(graph'.policies) > Len(graph.policies) =>
            /\ LoadRunning
            /\ AllCreated("users")
            /\ graph.claims = <<>>
            /\ graph.owns = <<>> /\ graph.has_claim = <<>> /\ graph.filed = <<>>
       /\ Len(graph'.claims) > Len(graph.claims) =>
            /\ LoadRunning
            /\ AllCreated("users") /\ AllCreated("policies")
            /\ graph.owns = <<>> /\ graph.has_claim = <<>> /\ graph.filed = <<>>
       /\ (\/ Len(graph'.owns) > Len(graph.owns)
           \/ Len(graph'.has_claim) > Len(graph.has_claim)
           \/ Len(graph'.filed) > Len(graph.filed)) =>
            /\ LoadRunning
            /\ AllCreated("users") /\ AllCreated("policies") /\ AllCreated("claims")]_vars

\* the last relationship of a load of two records of each kind is about to be
\* created, the store having held another graph before the load
LoadInOrderWitness ==
    \E w \in Workers :
        /\ req[w].call = "running"
        /\ req[w].pc = "filed"
        /\ req[w].i = 2
        /\ ~req[w].first
        /\ Len(graph.users) = 2 /\ Len(graph.policies) = 2 /\ Len(graph.claims) = 2
        /\ Len(graph.owns) = 2 /\ Len(graph.has_claim) = 2 /\ Len(graph.filed) = 1

(***************************************************************************)
(* Detection run again.                                                    *)
(***************************************************************************)
\* C26: detect_fraud_rings leaves the graph as the load left it, and run again
\* on the same graph, whatever the order in which the store returns the rows
\* that time, it returns the networks and the risk scores of the first run
DetectRepeatable ==
    \A w \in Workers :
        DetectDone(w) =>
            /\ graph = Loaded(hist.data)
            /\ \A phoneOrder \in Orderings(PhoneBindings(graph)),
                  policyOrder \in Orderings(PolicyBindings(graph)),
                  claimOrder \in Orderings(ClaimBindings(graph)) :
                   req[w].networks
                      = SuspiciousNetworks(graph, phoneOrder, policyOrder, claimOrder)
            /\ \A order \in Orderings(ScoredUsers(graph)) :
                   req[w].risk_scores = RiskScores(graph, order, Len(order))

(***************************************************************************)
(* Claims without a policy.                                                *)
(***************************************************************************)
\* the claims that a user FILED and that no policy HAS
Orphans(g) ==
    {c \in DOMAIN g.claims :
        /\ \E u \in DOMAIN g.users : Filed(g, u, c)
        /\ ~\E p \in DOMAIN g.policies : HasClaim(g, p, c)}

\* the payload without the claim records whose policyId no policy record has
Trimmed(data) ==
    [data EXCEPT !.claims =
        SelectSeq(@, LAMBDA claim :
            \E k \in DOMAIN data.policies :
                Get(data.policies[k], "policyId", "") = Get(claim, "policyId", ""))]

\* the networks the three detectors can return on a graph
NetworksOn(g) ==
    {PhoneNetwork(PhoneRow(g, b)) : b \in PhoneBindings(g)}
        \cup {PolicyNetwork(PolicyRow(g, b)) : b \in PolicyBindings(g)}
        \cup {ClaimNetwork(ClaimRow(g, b)) : b \in ClaimBindings(g)}

\* the claims that the User node u FILED
FiledBy(g, u) == {c \in DOMAIN g.claims : Filed(g, u, c)}

HighFiledBy(g, u) == {c \in FiledBy(g, u) : GreaterThan(g.claims[c].fraudScore, 70)}

\* the entries of a list that are about the user
EntriesOf(entries, userId) == {k \in DOMAIN entries : entries[k].userId = userId}

\* C27: a claim with a FILED and no HAS_CLAIM relationship is invisible to the
\* three detectors: the networks they return, with their claim counts, totals
\* and evidence, are networks of the same payload without such claims; it is
\* still counted in its user's risk_scores entry and in the indicator lists
\* (the high fraud score users, and the fallback's filers, as far as their
\* LIMIT lets every user in)
OrphansInvisibleButCounted ==
    \A w \in Workers :
        DetectDone(w) =>
            /\ Range(req[w].found) \subseteq NetworksOn(Loaded(Trimmed(hist.data)))
            /\ \A u \in DOMAIN graph.users :
                  LET userId == graph.users[u].userId
                  IN /\ FiledBy(graph, u) # {} =>
                          /\ userId \in DOMAIN req[w].risk_scores
                          /\ req[w].risk_scores[userId].claim_count
                                = Cardinality(FiledBy(graph, u))
                          /\ req[w].risk_scores[userId].total_amount
                                = TotalAmount(graph, FiledBy(graph, u))
                     /\ (/\ HighFiledBy(graph, u) # {}
                         /\ Cardinality(HighFraudUsers(graph)) <= HighFraudLimit) =>
                          \E k \in EntriesOf(req[w].indicators.high_fraud_score_users, userId) :
                              /\ req[w].indicators.high_fraud_score_users[k].claim_count
                                    = Cardinality(HighFiledBy(graph, u))
                              /\ req[w].indicators.high_fraud_score_users[k].total_amount
                                    = TotalAmount(graph, HighFiledBy(graph, u))
                     /\ (/\ Cardinality(FiledBy(graph, u)) >= 2
                         /\ RapidUsers(graph) = {}
                         /\ Cardinality(RepeatUsers(graph)) <= FallbackLimit) =>
                          \E k \in EntriesOf(req[w].indicators.rapid_claim_filers, userId) :
                              /\ req[w].indicators.rapid_claim_filers[k].claim_count
                                    = Cardinality(FiledBy(graph, u))
                              /\ req[w].indicators.rapid_claim_filers[k].total_amount
                                    = TotalAmount(graph, FiledBy(graph, u))

\* a user in a phone network has a claim of a policy and a claim without one,
\* and another user's only claim, without a policy, is identical to a claim of
\* the network
OrphanWitness ==
    \E w \in Workers :
        /\ DetectDone(w)
        /\ \E u \in DOMAIN graph.users, c \in Orphans(graph), k \in DOMAIN req[w].found :
             /\ Filed(graph, u, c)
             /\ req[w].found[k].type = "phone_network"
             /\ req[w].found[k].users[1] = graph.users[u].userId
             /\ req[w].found[k].details.claims_count1 = 1
             /\ req[w].risk_scores[graph.users[u].userId].claim_count = 2
             /\ Len(req[w].indicators.rapid_claim_filers) = 1
        /\ \E u \in DOMAIN graph.users :
             /\ FiledBy(graph, u) # {}
             /\ FiledBy(graph, u) \subseteq Orphans(graph)
             /\ \A k \in DOMAIN req[w].found :
                   graph.users[u].userId \notin UserKey(req[w].found[k])

(***************************************************************************)
(* Every repeat filer a rapid filer.                                       *)
(***************************************************************************)
\* C28: whenever the loaded graph has at least one user with two or more FILED
\* claims and no query fails, rapid_claim_filers is non-empty and the 'users
\* filing claims rapidly' recommendation is emitted, however far apart the
\* dates of the claims are
RepeatFilerAlwaysReported ==
    \A w \in Workers :
        (/\ DetectDone(w)
         /\ \E u \in DOMAIN graph.users : Cardinality(FiledBy(graph, u)) >= 2) =>
            /\ req[w].indicators.rapid_claim_filers # <<>>
            /\ \E k \in DOMAIN req[w].recommendations :
                  /\ req[w].recommendations[k].message = RapidMessage
                  /\ req[w].recommendations[k].count
                        = Len(req[w].indicators.rapid_claim_filers)

\* the only user with two claims submitted them in January and in March, both
\* dates read by the store
FarApartWitness ==
    \E w \in Workers :
        /\ DetectDone(w)
        /\ \E u \in DOMAIN graph.users :
             /\ Cardinality(FiledBy(graph, u)) = 2
             /\ Len(RapidDates(graph, u)) = 2
             /\ \E j, k \in DOMAIN RapidDates(graph, u) :
                   /\ RapidDates(graph, u)[j][1] = RapidDates(graph, u)[k][1]
                   /\ RapidDates(graph, u)[j][2] + 2 <= RapidDates(graph, u)[k][2]
             /\ \A v \in DOMAIN graph.users \ {u} : Cardinality(FiledBy(graph, v)) < 2
             /\ UserIds(req[w].indicators.rapid_claim_filers) = {graph.users[u].userId}
        /\ \E k \in DOMAIN req[w].recommendations :
             req[w].recommendations[k].message = RapidMessage

(***************************************************************************)
(* Requests that are turned away.                                          *)
(***************************************************************************)
\* C29: a detect request whose users, policies or claims list is missing or
\* empty is answered 400 before any store operation, and one that finds no
\* detector is answered 503: either leaves the graph of the previous load as it
\* is, without a wipe, and calls no load; a request that does call the load has
\* three non-empty lists
RejectedTouchesNothing ==
    [][\A w \in Workers :
          (req[w].pc = "idle" /\ req'[w].pc # "idle" /\ req'[w].route = "detect") =>
              /\ detector = "None" => (req'[w].pc = "done" /\ req'[w].status = 503)
              /\ (req'[w].pc = "done" /\ req'[w].status \in {400, 503}) =>
                    /\ graph' = graph
                    /\ hist' = hist
                    /\ req'[w].call = "none"
              /\ ~(req'[w].pc = "done" /\ req'[w].status \in {400, 503}) =>
                    /\ req'[w].call # "none"
                    /\ hist'.data.users # <<>>
                    /\ hist'.data.policies # <<>>
                    /\ hist'.data.claims # <<>>]_vars

\* a request was answered 400 and the graph of the load before it is there
RejectedWitness ==
    \E w \in Workers :
        /\ req[w].pc = "done"
        /\ req[w].route = "detect"
        /\ req[w].status = 400
        /\ hist.result = "returned"
        /\ Len(graph.users) = 2
        /\ Len(graph.filed) = 2

(***************************************************************************)
(* The range of a risk score.                                              *)
(***************************************************************************)
\* every claim of the graph has a fraudScore in [0,1] and a claimAmount >= 0
ClaimsInRange(g) ==
    \A c \in DOMAIN g.claims :
        /\ g.claims[c].fraudScore.type \in {"int", "float"}
        /\ g.claims[c].fraudScore.h >= 0
        /\ g.claims[c].fraudScore.h <= 100
        /\ g.claims[c].claimAmount >= 0

\* C30: for every graph whose claims all have fraudScore in [0,1] and
\* claimAmount >= 0, every entry of risk_scores has overall_risk in [0,1] and
\* claim_count >= 1, and max_claim_amount <= total_amount
RiskEntriesInRange ==
    \A w \in Workers :
        (DetectDone(w) /\ ClaimsInRange(graph)) =>
            \A user \in DOMAIN req[w].risk_scores :
                LET score == req[w].risk_scores[user]
                IN /\ score.overall_risk.num >= 0
                   /\ score.overall_risk.num <= score.overall_risk.den
                   /\ score.overall_risk.den > 0
                   /\ score.claim_count >= 1
                   /\ score.max_claim_amount <= score.total_amount

\* three users scored, one of them above 0.7 with three claims that total more
\* than 1,000,000, the largest of them 600,000
RiskEntriesWitness ==
    \E w \in Workers :
        /\ DetectDone(w)
        /\ ClaimsInRange(graph)
        /\ Cardinality(DOMAIN req[w].risk_scores) = 3
        /\ \E user \in DOMAIN req[w].risk_scores :
             /\ req[w].risk_scores[user].claim_count = 3
             /\ req[w].risk_scores[user].total_amount > Million
             /\ req[w].risk_scores[user].max_claim_amount = 600000
             /\ HighRisk(req[w].risk_scores[user])

====
